---- MODULE Spec2Model ----
(***************************************************************************)
(* Agent_Eval run mode: the run orchestrator (agent_eval/run/command.py)   *)
(* and the git lifecycle manager (agent_eval/run/git_helpers.py).          *)
(*                                                                         *)
(* Spec      the orchestrator `handler`, one action per step of its code;  *)
(*           the calls it makes to git and to the agent server are steps   *)
(*           whose outcome (return, raise) is chosen by the environment.   *)
(***************************************************************************)
EXTENDS Integers, Sequences, FiniteSets, TLC

None == "None"

\* session_id = None and "no exit status yet", as numbers.
NoSession == 0
Running == -1

(***************************************************************************)
(* Orchestrator state: the local variables of handler(), its position, and *)
(* the record of the calls it has made.                                    *)
(***************************************************************************)
VARIABLES
    pc,               \* position of handler()
    attempt,          \* loop variable of the retry loop
    attempts,         \* list of attempt records
    original_ref,     \* None until setup_starting_point returns
    baseline_commit,  \* None until setup_starting_point returns
    mutated_flag,     \* list that setup_starting_point appends True to
    session_id,       \* session of the current attempt, or None
    patch,            \* patch of the current attempt
    error,            \* error string of the current attempt, or None
    abort_retries,
    final_patch,
    final_session_id,
    restore_failed,
    raised,           \* an exception is propagating out of the try body
    exit_code,        \* process exit status, None while running
    final_trajectory, \* the trajectory record built for the final file
    trace             \* calls made so far, in order

hvars == <<pc, attempt, attempts, original_ref, baseline_commit, mutated_flag,
           session_id, patch, error, abort_retries, final_patch,
           final_session_id, restore_failed, raised, exit_code, trace,
           final_trajectory>>

MAX_RETRIES == 3

\* Patches as validate_patch sees them: empty, malformed, well formed.
Patches == {"", "malformed", "wellformed"}

\* validate_patch, on the three kinds of patch text.
validate_patch(p) ==
    IF p = "" THEN [ok |-> FALSE, reason |-> "empty patch"]
    ELSE IF p = "malformed" THEN [ok |-> FALSE, reason |-> "missing hunk"]
    ELSE [ok |-> TRUE, reason |-> "ok"]

Ev(e, a) == [e |-> e, a |-> a]
Log(e) == trace' = Append(trace, Ev(e, attempt))

\* Trajectory records: the conversation and statistics collected from the
\* session of attempt i (conversation_of = i), or the minimal record built
\* without any (conversation_of = 0).
NoTrajectory == [conversation_of |-> -1, session_id |-> NoSession]
Collected(a) == [conversation_of |-> a.attempt, session_id |-> a.session_id]
Minimal(sid) == [conversation_of |-> 0, session_id |-> sid]

HInit ==
    /\ pc = "start"
    /\ attempt = 0
    /\ attempts = <<>>
    /\ original_ref = None
    /\ baseline_commit = None
    /\ mutated_flag = <<>>
    /\ session_id = NoSession
    /\ patch = ""
    /\ error = None
    /\ abort_retries = FALSE
    /\ final_patch = ""
    /\ final_session_id = NoSession
    /\ restore_failed = FALSE
    /\ raised = FALSE
    /\ exit_code = Running
    /\ trace = <<>>
    /\ final_trajectory = NoTrajectory

\* Lines 47-59: argument validation and prompt read, outside the try block.
\* A failure here leaves the process before the try/finally is entered.
ValidateArgs ==
    /\ pc = "start"
    /\ \E ok \in BOOLEAN :
         IF ok THEN /\ pc' = "pre_setup"
                    /\ exit_code' = exit_code
               ELSE /\ pc' = "exited"
                    /\ exit_code' = 1
    /\ UNCHANGED <<attempt, attempts, original_ref, baseline_commit,
                   mutated_flag, session_id, patch, error, abort_retries,
                   final_patch, final_session_id, restore_failed, raised,
                   trace,
                   final_trajectory>>

\* Lines 82-150: ground-truth patch checks, health check, model resolution,
\* pre-setup ref.  sys.exit and a failed health check raise inside the try.
PreSetup ==
    /\ pc = "pre_setup"
    /\ \E ok \in BOOLEAN :
         IF ok THEN /\ pc' = "setup"
                    /\ raised' = raised
               ELSE /\ pc' = "finally"
                    /\ raised' = TRUE
    /\ UNCHANGED <<attempt, attempts, original_ref, baseline_commit,
                   mutated_flag, session_id, patch, error, abort_retries,
                   final_patch, final_session_id, restore_failed, exit_code,
                   trace,
                   final_trajectory>>

\* Lines 152-163: setup_starting_point returns, or raises before or after
\* _mark_mutated appended to mutated_flag.
SetupStep ==
    /\ pc = "setup"
    /\ \E out \in {"return", "raise_unmutated", "raise_mutated"} :
         CASE out = "return" ->
                /\ original_ref' = "ref_token"
                /\ baseline_commit' = "baseline"
                /\ mutated_flag' = <<TRUE>>
                /\ raised' = raised
                /\ pc' = "loop"
                /\ attempt' = 1
                /\ trace' = Append(trace, Ev("setup_returned", 0))
           [] out = "raise_unmutated" ->
                /\ raised' = TRUE
                /\ pc' = "finally"
                /\ trace' = Append(trace, Ev("setup_raised", 0))
                /\ UNCHANGED <<original_ref, baseline_commit, mutated_flag,
                               attempt>>
           [] out = "raise_mutated" ->
                /\ mutated_flag' = <<TRUE>>
                /\ raised' = TRUE
                /\ pc' = "finally"
                /\ trace' = Append(trace, Ev("setup_raised", 0))
                /\ UNCHANGED <<original_ref, baseline_commit, attempt>>
    /\ UNCHANGED <<attempts, session_id, patch, error, abort_retries,
                   final_patch, final_session_id, restore_failed, exit_code,
                   final_trajectory>>

\* The test of line 180 letting the second attempt through without a reset.
ResetFromThirdAttempt == attempt > 2

\* Line 180: every attempt but the first resets the repository first.
ResetBeforeAttempt == attempt > 1

\* Lines 165-176: head of one iteration of the retry loop.
AttemptBegin ==
    /\ pc = "loop"
    /\ patch' = ""
    /\ error' = None
    /\ abort_retries' = FALSE
    /\ session_id' = NoSession
    /\ pc' = IF ResetBeforeAttempt THEN "reset" ELSE "create"
    /\ Log("attempt_begin")
    /\ UNCHANGED <<attempt, attempts, original_ref, baseline_commit,
                   mutated_flag, final_patch, final_session_id,
                   restore_failed, raised, exit_code,
                   final_trajectory>>

\* Lines 180-184: reset_to_baseline before every attempt but the first.
\* A raise is caught by `except Exception` (line 212).
ResetStep ==
    /\ pc = "reset"
    /\ \E ok \in BOOLEAN :
         IF ok THEN /\ pc' = "create"
                    /\ error' = error
                    /\ Log("reset_returned")
               ELSE /\ pc' = "validate"
                    /\ error' = "reset failed"
                    /\ Log("reset_raised")
    /\ UNCHANGED <<attempt, attempts, original_ref, baseline_commit,
                   mutated_flag, session_id, patch, abort_retries,
                   final_patch, final_session_id, restore_failed, raised,
                   exit_code,
                   final_trajectory>>

\* Lines 187-189: create_session.
CreateSession ==
    /\ pc = "create"
    /\ \E ok \in BOOLEAN :
         IF ok THEN /\ session_id' = attempt
                    /\ final_session_id' = attempt
                    /\ pc' = "send"
                    /\ error' = error
                    /\ Log("create_session")
               ELSE /\ pc' = "validate"
                    /\ error' = "no session"
                    /\ Log("create_session_raised")
                    /\ UNCHANGED <<session_id, final_session_id>>
    /\ UNCHANGED <<attempt, attempts, original_ref, baseline_commit,
                   mutated_flag, patch, abort_retries, final_patch,
                   restore_failed, raised, exit_code,
                   final_trajectory>>

\* Lines 192-197 and the handlers at 206-215: send_task returns, raises
\* AgentDidNotRunError, raises another Exception, or is interrupted by an
\* exception that `except Exception` does not catch (KeyboardInterrupt).
SendTask ==
    /\ pc = "send"
    /\ \E out \in {"reply", "AgentDidNotRunError", "Exception", "interrupt"} :
         /\ Log(IF out = "reply" THEN "send_task" ELSE out)
         /\ CASE out = "reply" ->
                   /\ pc' = "extract"
                   /\ UNCHANGED <<error, abort_retries, raised>>
              [] out = "AgentDidNotRunError" ->
                   /\ error' = "agent did not run"
                   /\ abort_retries' = TRUE
                   /\ pc' = "validate"
                   /\ raised' = raised
              [] out = "Exception" ->
                   /\ error' = "send failed"
                   /\ pc' = "validate"
                   /\ UNCHANGED <<abort_retries, raised>>
              [] out = "interrupt" ->
                   /\ raised' = TRUE
                   /\ pc' = "finally"
                   /\ UNCHANGED <<error, abort_retries>>
    /\ UNCHANGED <<attempt, attempts, original_ref, baseline_commit,
                   mutated_flag, session_id, patch, final_patch,
                   final_session_id, restore_failed, exit_code,
                   final_trajectory>>

\* Lines 200-204: has_repo_changes, then get_patch; get_patch may raise.
ExtractPatch ==
    /\ pc = "extract"
    /\ \/ \E p \in Patches :
            /\ patch' = p
            /\ error' = error
            /\ Log("get_patch")
       \/ /\ error' = "git command failed"
          /\ patch' = patch
          /\ Log("get_patch_raised")
    /\ pc' = "validate"
    /\ UNCHANGED <<attempt, attempts, original_ref, baseline_commit,
                   mutated_flag, session_id, abort_retries, final_patch,
                   final_session_id, restore_failed, raised, exit_code,
                   final_trajectory>>

\* Verdict that accepts every non-empty patch.
VerdictWithoutValidation ==
    IF abort_retries THEN [ok |-> FALSE, reason |-> "agent did not run"]
    ELSE IF patch # "" THEN [ok |-> TRUE, reason |-> "ok"]
    ELSE [ok |-> FALSE, reason |-> "empty patch"]

\* Lines 218-223: the verdict for the current attempt.
Verdict ==
    IF abort_retries THEN [ok |-> FALSE, reason |-> "agent did not run"]
    ELSE IF patch # "" THEN validate_patch(patch)
    ELSE [ok |-> FALSE, reason |-> "empty patch"]

\* The attempt judged right after its record, without lines 239-261.
StepAfterRecordSkippingCollect == "decide"

\* Lines 239-261 follow the record of the attempt: collect its trajectory
\* before the verdict is acted on.
StepAfterRecord == "collect"

\* Lines 218-237: validate and record the attempt.
RecordAttempt ==
    /\ pc = "validate"
    /\ attempts' = Append(attempts,
           [attempt |-> attempt, session_id |-> session_id,
            patch_valid |-> Verdict.ok,
            patch_validation_reason |-> Verdict.reason,
            patch |-> patch, error |-> error, trajectory |-> FALSE])
    /\ pc' = StepAfterRecord
    /\ Log("validate")
    /\ UNCHANGED <<attempt, original_ref, baseline_commit, mutated_flag,
                   session_id, patch, error, abort_retries, final_patch,
                   final_session_id, restore_failed, raised, exit_code,
                   final_trajectory>>

\* Lines 240-261: collect_trajectory for the attempt; its exceptions are
\* swallowed and leave the record without a trajectory.
CollectTrajectory ==
    /\ pc = "collect"
    /\ IF session_id # NoSession
         THEN \E ok \in BOOLEAN :
                /\ attempts' = [attempts EXCEPT
                                  ![Len(attempts)].trajectory = ok]
                /\ Log(IF ok THEN "collect_trajectory"
                             ELSE "collect_trajectory_raised")
         ELSE UNCHANGED <<attempts, trace>>
    /\ pc' = "decide"
    /\ UNCHANGED <<attempt, original_ref, baseline_commit, mutated_flag,
                   session_id, patch, error, abort_retries, final_patch,
                   final_session_id, restore_failed, raised, exit_code,
                   final_trajectory>>

\* Lines 277-281 without the abort_retries test of line 274.
LeaveLoopOnExhaustionOnly == attempt >= MAX_RETRIES

\* Lines 274-281: after an invalid attempt the loop ends on abort_retries
\* (break) or when the range of attempts is exhausted.
LeaveLoop == abort_retries \/ attempt >= MAX_RETRIES

\* Lines 263-281: adopt a valid patch and leave the loop; otherwise delete
\* the session, leave the loop on abort_retries, or go to the next attempt.
\* cleanup_session swallows HTTP and connection errors only.
Decide ==
    /\ pc = "decide"
    /\ IF attempts[Len(attempts)].patch_valid
         THEN /\ final_patch' = patch
              /\ pc' = "write_patch"
              /\ UNCHANGED <<attempt, raised, trace>>
         ELSE /\ final_patch' = final_patch
              /\ \E cleanup_ok \in BOOLEAN :
                   /\ (session_id = NoSession) => cleanup_ok
                   /\ IF session_id # NoSession
                        THEN Log(IF cleanup_ok THEN "cleanup_session"
                                 ELSE "cleanup_session_raised")
                        ELSE trace' = trace
                   /\ IF ~cleanup_ok
                        THEN /\ raised' = TRUE
                             /\ pc' = "finally"
                             /\ attempt' = attempt
                        ELSE /\ raised' = raised
                             /\ IF LeaveLoop
                                  THEN /\ pc' = "write_patch"
                                       /\ attempt' = attempt
                                  ELSE /\ pc' = "loop"
                                       /\ attempt' = attempt + 1
    /\ UNCHANGED <<attempts, original_ref, baseline_commit, mutated_flag,
                   session_id, patch, error, abort_retries,
                   final_session_id, restore_failed, exit_code,
                   final_trajectory>>

\* Lines 287-295: write the patch file when there is a final patch.
WritePatch ==
    /\ pc = "write_patch"
    /\ IF final_patch # ""
         THEN \E ok \in BOOLEAN :
                IF ok THEN /\ pc' = "save_trajectory"
                           /\ raised' = raised
                           /\ Log("write_patch")
                      ELSE /\ pc' = "finally"
                           /\ raised' = TRUE
                           /\ Log("write_patch_raised")
         ELSE /\ pc' = "save_trajectory"
              /\ UNCHANGED <<raised, trace>>
    /\ UNCHANGED <<attempt, attempts, original_ref, baseline_commit,
                   mutated_flag, session_id, patch, error, abort_retries,
                   final_patch, final_session_id, restore_failed, exit_code,
                   final_trajectory>>

\* The attempts a reversed search visits first-to-last.
RECURSIVE FirstFromEnd(_, _, _)
FirstFromEnd(as, i, eligible) ==
    IF i = 0 THEN 0
    ELSE IF i \in eligible THEN i
    ELSE FirstFromEnd(as, i - 1, eligible)

\* Lines 303-313 taking, on failure too, the latest attempt that has a
\* trajectory.
SelectLatestCollected(as, fp) ==
    FirstFromEnd(as, Len(as),
                 {i \in DOMAIN as : as[i].trajectory
                                     /\ (fp # "" => as[i].patch_valid)})

\* Lines 303-313: on success the latest valid attempt that has a trajectory,
\* on failure the last attempt if it has one; 0 when there is none.
SelectTrajectory(as, fp) ==
    IF fp # ""
    THEN FirstFromEnd(as, Len(as),
                      {i \in DOMAIN as : as[i].patch_valid
                                          /\ as[i].trajectory})
    ELSE IF as # <<>> /\ as[Len(as)].trajectory THEN Len(as) ELSE 0

\* Lines 303-332: the selected trajectory, or the minimal record.
BuildFinalTrajectory(i) ==
    IF i = 0 THEN Minimal(final_session_id) ELSE Collected(attempts[i])

\* Lines 303-363: build and save the final trajectory.
SaveTrajectory ==
    /\ pc = "save_trajectory"
    /\ final_trajectory' =
           BuildFinalTrajectory(SelectTrajectory(attempts, final_patch))
    /\ \E ok \in BOOLEAN :
         /\ Log(IF ok THEN "save_trajectory" ELSE "save_trajectory_raised")
         /\ raised' = (raised \/ ~ok)
    /\ pc' = "finally"
    /\ UNCHANGED <<attempt, attempts, original_ref, baseline_commit,
                   mutated_flag, session_id, patch, error, abort_retries,
                   final_patch, final_session_id, restore_failed, exit_code>>

\* The condition of line 369.
SetupCompleted == original_ref # None /\ baseline_commit # None

\* The finally block restoring only when the try body ended normally.
FinallyBranchUnlessRaised ==
    IF original_ref # None /\ baseline_commit # None /\ ~raised
    THEN "restore_repo"
    ELSE IF mutated_flag = <<>> THEN "nothing"
    ELSE "basic_cleanup"

\* The finally block with the test of line 376 inverted.
FinallyBranchFlagInverted ==
    IF original_ref # None /\ baseline_commit # None THEN "restore_repo"
    ELSE IF mutated_flag # <<>> THEN "nothing"
    ELSE "basic_cleanup"

\* Which of the three branches of the finally block (lines 369-423) runs.
FinallyBranch ==
    IF SetupCompleted THEN "restore_repo"
    ELSE IF mutated_flag = <<>> THEN "nothing"
    ELSE "basic_cleanup"

\* Lines 365-423: the finally block: restore_repo, nothing, or the
\* best-effort cleanup; an exception of either sets restore_failed.
Finally ==
    /\ pc = "finally"
    /\ CASE FinallyBranch = "restore_repo" ->
              \E ok \in BOOLEAN :
                /\ restore_failed' = ~ok
                /\ Log(IF ok THEN "restore_repo" ELSE "restore_repo_raised")
         [] FinallyBranch = "nothing" ->
              /\ restore_failed' = FALSE
              /\ Log("no_cleanup")
         [] FinallyBranch = "basic_cleanup" ->
              \E ok \in BOOLEAN :
                /\ restore_failed' = ~ok
                /\ Log(IF ok THEN "basic_cleanup" ELSE "basic_cleanup_raised")
    /\ pc' = "final_cleanup"
    /\ UNCHANGED <<attempt, attempts, original_ref, baseline_commit,
                   mutated_flag, session_id, patch, error, abort_retries,
                   final_patch, final_session_id, raised, exit_code,
                   final_trajectory>>

\* Lines 427-433: remove the temp patch file and delete the final session.
FinalCleanup ==
    /\ pc = "final_cleanup"
    /\ IF final_session_id # NoSession /\ final_patch # ""
         THEN \E ok \in BOOLEAN :
                /\ Log(IF ok THEN "cleanup_final_session"
                             ELSE "cleanup_final_session_raised")
                /\ raised' = (raised \/ ~ok)
         ELSE UNCHANGED <<raised, trace>>
    /\ pc' = "exit"
    /\ UNCHANGED <<attempt, attempts, original_ref, baseline_commit,
                   mutated_flag, session_id, patch, error, abort_retries,
                   final_patch, final_session_id, restore_failed, exit_code,
                   final_trajectory>>

\* Exit status of the process: an exception that left the try/finally ends
\* the process with status 1 (lines 437-441 are not reached); otherwise
\* lines 437-441 choose 2, 1 or 0.
ExitStatus ==
    IF raised THEN 1
    ELSE IF restore_failed THEN 2
    ELSE IF final_patch = "" THEN 1
    ELSE 0

\* Lines 437-441 and the propagation of a pending exception.
Exit ==
    /\ pc = "exit"
    /\ exit_code' = ExitStatus
    /\ pc' = "exited"
    /\ UNCHANGED <<attempt, attempts, original_ref, baseline_commit,
                   mutated_flag, session_id, patch, error, abort_retries,
                   final_patch, final_session_id, restore_failed, raised,
                   trace,
                   final_trajectory>>


(***************************************************************************)
(* The repository under evaluation, as the git lifecycle manager sees it:  *)
(* a file system (working tree, .git, a directory outside the repository), *)
(* the git database kept in .git, the backup directory of the sanitizer    *)
(* and the in-repo sidecar.                                                *)
(***************************************************************************)

\* Directories.  Root is the repository working tree, Git its .git, Ext a
\* directory outside the repository, Cache an ignored directory of the tree.
Root == <<"repo">>
Git == <<"repo", ".git">>
Ext == <<"ext">>
Cache == <<"repo", "cache">>
Nowhere == <<"nowhere">>

\* Paths below a directory that the model tracks.
Rests == {<<"config">>, <<"src">>, <<"sub">>, <<"sub", "x">>}
Under(base) == {base \o r : r \in Rests}
EnvPath == Root \o <<".env">>
NewPath == Root \o <<"new">>
SubEnvPath == Root \o <<"sub", ".env">>
Nodes == Under(Root) \cup Under(Git) \cup Under(Ext) \cup Under(Cache)
            \cup {Cache, EnvPath, NewPath, SubEnvPath}
ImplicitDirs == {Root, Git, Ext}

\* What can be at a path.
NoEnt == [k |-> "none", v |-> ""]
Dir == [k |-> "dir", v |-> ""]
File(c) == [k |-> "file", v |-> c]
Link(t) == [k |-> "link", v |-> t]

\* Where a symbolic link points.
\* "ext", "git", "root", "extfile"; anything else dangles.
TargetPath(t) ==
    CASE t = "ext" -> Ext
      [] t = "git" -> Git
      [] t = "root" -> Root
      [] t = "extfile" -> Ext \o <<"config">>
      [] OTHER -> Nowhere

Front(p) == SubSeq(p, 1, Len(p) - 1)
Last(p) == p[Len(p)]
IsPrefix(a, b) == Len(a) <= Len(b) /\ SubSeq(b, 1, Len(a)) = a

\* os.path.realpath: resolve every symbolic link on the way.
RECURSIVE RealFrom(_, _, _)
RealFrom(f, done, rest) ==
    IF rest = <<>> THEN done
    ELSE IF Head(rest) = ".."
    THEN RealFrom(f, IF done = <<>> THEN done ELSE Front(done), Tail(rest))
    ELSE LET q == Append(done, Head(rest)) IN
         IF q \in Nodes /\ f[q].k = "link"
         THEN RealFrom(f, TargetPath(f[q].v), Tail(rest))
         ELSE RealFrom(f, q, Tail(rest))
realpath(f, p) == RealFrom(f, <<>>, p)

\* The entry a path names without following a link at its last component.
LPath(f, p) == Append(realpath(f, Front(p)), Last(p))
At(f, q) ==
    IF q \in ImplicitDirs THEN Dir
    ELSE IF q \in Nodes THEN f[q]
    ELSE NoEnt
lstat(f, p) == At(f, LPath(f, p))
stat(f, p) == At(f, realpath(f, p))

lexists(f, p) == lstat(f, p).k # "none"
islink(f, p) == lstat(f, p).k = "link"
isdir(f, p) == stat(f, p).k = "dir"
isfile(f, p) == stat(f, p).k = "file"
exists(f, p) == stat(f, p).k # "none"

\* Remove an entry and everything below it.
RemoveTree(f, q) ==
    [n \in Nodes |-> IF IsPrefix(q, n) THEN NoEnt ELSE f[n]]

\* Write an entry at the place the path names (parent resolved), replacing
\* what is there.
PutAt(f, q, e) ==
    IF q \in Nodes THEN [RemoveTree(f, q) EXCEPT ![q] = e] ELSE f
put(f, p, e) == PutAt(f, LPath(f, p), e)

\* os.makedirs(p, exist_ok=True): [f |-> file system after, ok |-> no raise].
RECURSIVE makedirs(_, _)
Mkdir(up, p) ==
    IF ~up.ok \/ ~isdir(up.f, Front(p)) \/ LPath(up.f, p) \notin Nodes
    THEN [f |-> up.f, ok |-> FALSE]
    ELSE [f |-> put(up.f, p, Dir), ok |-> TRUE]
makedirs(f, p) ==
    IF isdir(f, p) THEN [f |-> f, ok |-> TRUE]
    ELSE IF lexists(f, p) \/ Len(p) <= 1 THEN [f |-> f, ok |-> FALSE]
    ELSE Mkdir(IF exists(f, Front(p)) THEN [f |-> f, ok |-> TRUE]
               ELSE makedirs(f, Front(p)),
               p)

(***************************************************************************)
(* The git database (the content of .git) and the git commands the         *)
(* lifecycle manager runs.  One tracked file, src; a commit's tree is the  *)
(* content of src.  .env and everything below cache are ignored by the     *)
(* repository's ignore rules (rules `.env` and `cache`, without a trailing *)
(* slash, so they match a file or link of that name as well).              *)
(***************************************************************************)
Branches == {"main", "pr_1", "master"}
CommitIds == {"c0", "c1", "c2", "bl", "san", "ag"}
NoCommit == "none"
NoObj == [tree |-> "", parent |-> NoCommit, msg |-> ""]
Obj(t, p, m) == [tree |-> t, parent |-> p, msg |-> m]
BaselineMsg == "baseline: pre-patch starting point (auto-generated)"
SrcPath == Root \o <<"src">>

\* git rev-parse HEAD
HeadCommit(g) == IF g.head \in Branches THEN g.refs[g.head] ELSE g.head
\* git rev-parse --abbrev-ref HEAD
AbbrevRef(g) == IF g.head \in Branches THEN g.head ELSE "HEAD"
TreeOf(g, c) == g.objs[c].tree
HasCommit(g, c) == c \in CommitIds /\ g.objs[c] # NoObj
SrcContent(f) == IF f[SrcPath].k = "file" THEN f[SrcPath].v ELSE ""

\* Move HEAD (the current branch, or the detached HEAD) to commit c.
MoveHead(g, c) ==
    IF g.head \in Branches THEN [g EXCEPT !.refs[g.head] = c]
    ELSE [g EXCEPT !.head = c]

\* git checkout <ref>: a local branch or a commit.  Fails on an unknown ref
\* and when local changes to src would be overwritten.
CheckoutTarget(g, ref) ==
    IF ref \in Branches /\ g.refs[ref] # NoCommit THEN g.refs[ref]
    ELSE IF HasCommit(g, ref) THEN ref
    ELSE NoCommit
SameTree(g, h, t) ==
    h # NoCommit /\ t # NoCommit /\ TreeOf(g, h) = TreeOf(g, t)
CleanAt(w, h) ==
    /\ h # NoCommit
    /\ w.git.index = TreeOf(w.git, h)
    /\ SrcContent(w.fs) = w.git.index
CheckoutTo(w, ref, t, same) ==
    IF t = NoCommit \/ ~(same \/ CleanAt(w, HeadCommit(w.git)))
    THEN [w |-> w, ok |-> FALSE]
    ELSE IF same THEN [w |-> [w EXCEPT !.git.head = ref], ok |-> TRUE]
    ELSE [w |-> [w EXCEPT !.git.head = ref,
                          !.git.index = TreeOf(w.git, t),
                          !.fs[SrcPath] = File(TreeOf(w.git, t))],
          ok |-> TRUE]
git_checkout(w, ref) ==
    CheckoutTo(w, ref, CheckoutTarget(w.git, ref),
               SameTree(w.git, HeadCommit(w.git), CheckoutTarget(w.git, ref)))

\* git fetch <url> <branch>:<branch> from a remote that has the branch.
RemoteTip(b) == IF b = "pr_1" THEN "c2" ELSE "c1"
RemoteObj(c) == IF c = "c2" THEN Obj("v2", "c1", "fix") ELSE Obj("v1", "c0", "work")
git_fetch(w, b) ==
    IF w.git.refs[b] # NoCommit THEN w
    ELSE [w EXCEPT !.git.refs[b] = RemoteTip(b),
                   !.git.objs[RemoteTip(b)] = RemoteObj(RemoteTip(b))]

\* git reset --hard <commit>
git_reset_hard(w, c) ==
    IF ~HasCommit(w.git, c) THEN [w |-> w, ok |-> FALSE]
    ELSE [w |-> [w EXCEPT
                   !.git = [MoveHead(w.git, c) EXCEPT
                              !.index = TreeOf(w.git, c)],
                   !.fs = [RemoveTree(@, SrcPath) EXCEPT
                             ![SrcPath] = File(TreeOf(w.git, c))]],
          ok |-> TRUE]

\* Paths of the working tree that are neither tracked nor ignored.
UntrackedTop == {NewPath, Root \o <<"config">>, Root \o <<"sub">>}

\* An untracked directory that holds an ignored entry.
HoldsIgnored(f) ==
    f[Root \o <<"sub">>].k = "dir" /\ f[SubEnvPath].k # "none"

\* What git clean -fd removes: the untracked paths, but of a directory that
\* holds an ignored entry only the untracked entries below it.
CleanTargets(f) ==
    IF HoldsIgnored(f)
    THEN (UntrackedTop \ {Root \o <<"sub">>}) \cup {Root \o <<"sub", "x">>}
    ELSE UntrackedTop

\* git status reports an untracked path: a file or link, or a directory
\* with an untracked file in it (not an empty directory, not one that holds
\* ignored entries only).
HasUntracked(f) ==
    \/ \E q \in {NewPath, Root \o <<"config">>, Root \o <<"sub", "x">>} :
          f[q].k # "none"
    \/ f[Root \o <<"sub">>].k \in {"file", "link"}

\* git clean -fd: remove untracked files and directories, keep ignored ones.
\* The in-repo sidecar is ignored only through .git/info/exclude.
RECURSIVE RemoveAll(_, _)
RemoveAll(f, qs) ==
    IF qs = {} THEN f
    ELSE LET q == CHOOSE x \in qs : TRUE
         IN RemoveAll(RemoveTree(f, q), qs \ {q})
git_clean(w) ==
    [w EXCEPT !.fs = RemoveAll(@, CleanTargets(w.fs)),
              !.sidecar = IF w.git.exclude THEN @
                          ELSE [@ EXCEPT !.present = FALSE]]

\* git status --porcelain prints something.
git_status_dirty(w) ==
    \/ SrcContent(w.fs) # w.git.index
    \/ HeadCommit(w.git) = NoCommit
    \/ w.git.index # TreeOf(w.git, HeadCommit(w.git))
    \/ HasUntracked(w.fs)
    \/ (w.sidecar.present /\ ~w.git.exclude)

\* git add -A
git_add_all(w) == [w EXCEPT !.git.index = SrcContent(w.fs)]

\* git commit -m <msg>, creating commit id c.
git_commit(w, c, msg) ==
    [w EXCEPT !.git = [MoveHead(w.git, c) EXCEPT
                         !.objs[c] = Obj(w.git.index, HeadCommit(w.git), msg)]]

\* A unified diff from the commit tree t to the working tree f: the change
\* of the tracked file and the untracked files added.
AddedFiles(f) ==
    {q \in UntrackedTop \cup {Root \o <<"sub", "x">>} :
        f[q].k \in {"file", "link"}}
Diff(t, f) ==
    [changed |-> IF t = SrcContent(f) THEN <<>> ELSE <<t, SrcContent(f)>>,
     added |-> AddedFiles(f)]
EmptyPatch == [changed |-> <<>>, added |-> {}]

\* has_repo_changes: git status --porcelain prints something.
has_repo_changes(w) == git_status_dirty(w)

\* get_patch: git add -A, git diff --cached HEAD, git reset HEAD.
get_patch(w) ==
    [w |-> [w EXCEPT !.git.index = TreeOf(w.git, HeadCommit(w.git))],
     patch |-> Diff(TreeOf(w.git, HeadCommit(w.git)), w.fs)]

\* git apply --reverse <gt_patch>: the ground-truth patch turns v1 into v2;
\* the patch "noop" applies and changes nothing that git status reports.
git_apply_reverse(w, gt) ==
    IF gt = "noop" THEN [w |-> w, ok |-> TRUE]
    ELSE IF SrcContent(w.fs) = "v2"
    THEN [w |-> [w EXCEPT !.fs[SrcPath] = File("v1")], ok |-> TRUE]
    ELSE [w |-> w, ok |-> FALSE]

\* git init in a directory without .git: an empty database on `master`.
EmptyGit ==
    [sanitized |-> TRUE, head |-> "master",
     refs |-> [b \in Branches |-> NoCommit],
     objs |-> [c \in CommitIds |-> NoObj],
     index |-> "", exclude |-> FALSE, hint |-> ""]

\* The files of a fresh .git that the model tracks.
FreshGitFiles ==
    [r \in Rests |-> IF r = <<"config">> THEN File("gitconfig") ELSE NoEnt]

\* The tracked part of .git as a copy, and a copy put back in place.
GitFilesOf(f) == [r \in Rests |-> f[Git \o r]]
WithGitFiles(f, gf) ==
    [n \in Nodes |-> IF IsPrefix(Git, n)
                     THEN gf[SubSeq(n, Len(Git) + 1, Len(n))]
                     ELSE f[n]]

(***************************************************************************)
(* Relative paths as they appear in git's listings and in the sidecar.     *)
(***************************************************************************)
RelPaths == {".env", "cache", "cache/config", "cache/sub/x", "cache/src",
             "src", "sub/.env", ".git/config", "/ext/config",
             "../ext/config"}
Comps(r) ==
    CASE r = ".env" -> <<".env">>
      [] r = "cache" -> <<"cache">>
      [] r = "cache/config" -> <<"cache", "config">>
      [] r = "cache/sub/x" -> <<"cache", "sub", "x">>
      [] r = "cache/src" -> <<"cache", "src">>
      [] r = "src" -> <<"src">>
      [] r = "sub/.env" -> <<"sub", ".env">>
      [] r = ".git/config" -> <<".git", "config">>
      [] r = "/ext/config" -> <<"ext", "config">>
      [] r = "../ext/config" -> <<"..", "ext", "config">>
\* os.path.isabs
isabs(r) == r = "/ext/config"
\* os.path.join(base, relpath): an absolute second argument wins.
join(base, r) == IF isabs(r) THEN Comps(r) ELSE base \o Comps(r)

\* os.path.normpath of a relative path, on its components.
RECURSIVE NormFrom(_, _)
NormFrom(done, rest) ==
    IF rest = <<>> THEN done
    ELSE IF Head(rest) = "." THEN NormFrom(done, Tail(rest))
    ELSE IF Head(rest) = ".." /\ done # <<>> /\ Last(done) # ".."
    THEN NormFrom(Front(done), Tail(rest))
    ELSE NormFrom(Append(done, Head(rest)), Tail(rest))
normpath(r) == NormFrom(<<>>, Comps(r))

\* _is_safe_relpath (lines 202-229), Gate A.
IsSafeRelpath(r) ==
    /\ ~isabs(r)
    /\ (normpath(r) # <<>> => Head(normpath(r)) # "..")
    /\ (normpath(r) # <<>> => Head(normpath(r)) # ".git")

\* _is_git_tracked (lines 232-238), Gate B: git ls-files --error-unmatch
\* compares the path as written, it does not resolve links.
IsGitTracked(w, r) ==
    /\ ~isabs(r)
    /\ normpath(r) = <<"src">>
    /\ w.git.index # ""

\* The sidecar: where the backup is and which ignored files existed.
NoSidecar == [present |-> FALSE, backup_dir |-> "", pre_agent_ignored |-> {}]
SidecarData(bd, pre) ==
    [present |-> TRUE, backup_dir |-> bd, pre_agent_ignored |-> pre]

\* The backup directory agent_eval_git_bak_* of the sanitizer.
NoFiles == [r \in RelPaths |-> ""]
NoBackup ==
    [exists |-> FALSE, git |-> EmptyGit, gitfiles |-> FreshGitFiles,
     sidecar |-> NoSidecar, ignored |-> NoFiles]

\* Content of <backup_dir>/ignored/<relpath>, "" when there is no such file.
\* It is asked only for paths that passed _is_safe_relpath or that os.walk
\* found below ignored/, so never for an absolute path.
BackupFile(w, bd, r) ==
    IF ~isabs(r) /\ bd = "bak" /\ w.bak.exists THEN w.bak.ignored[r] ELSE ""
IgnoredRootIsDir(w, bd) ==
    bd = "bak" /\ w.bak.exists /\ \E r \in RelPaths : w.bak.ignored[r] # ""

\* _list_ignored_files (lines 75-83): git ls-files --others --ignored
\* --exclude-standard.  A directory is listed by the files below it, but a
\* directory that is a git repository of its own is listed as one entry.
NestedRepo == [k |-> "dir", v |-> "repo"]
IsEntry(e) == e.k \in {"file", "link"}
ListIgnoredFiles(w) ==
    {r \in {".env", "cache"} : IsEntry(w.fs[Root \o Comps(r)])}
    \cup {r \in {"cache"} : w.fs[Cache] = NestedRepo}
    \cup {r \in {"cache/config", "cache/src"} :
            w.fs[Cache] = Dir /\ IsEntry(w.fs[Root \o Comps(r)])}
    \cup {r \in {"sub/.env"} :
            /\ w.fs[Root \o <<"sub">>].k = "dir"
            /\ IsEntry(w.fs[SubEnvPath])}
    \cup {r \in {"cache/sub/x"} :
            /\ w.fs[Cache] = Dir
            /\ w.fs[Cache \o <<"sub">>].k = "dir"
            /\ IsEntry(w.fs[Root \o Comps(r)])}

\* _backup_ignored_files (lines 178-199): copy every listed regular file.
BackupIgnoredFiles(w) ==
    LET listed == ListIgnoredFiles(w) IN
    [w EXCEPT !.bak.ignored =
        [r \in RelPaths |->
            IF r \in listed /\ isfile(w.fs, join(Root, r))
            THEN stat(w.fs, join(Root, r)).v ELSE ""]]

\* Lines 291-294, Gate C: the resolved parent is the repository or below it.
InsideRepo(real_dst_dir) == IsPrefix(Root, real_dst_dir)

\* Lines 285-315 for one path: the parent was made, now the containment
\* test on the resolved parent, then whatever is at dst is replaced by the
\* copy.  [w |-> repository after, ok |-> FALSE when os.makedirs raised].
CopyBack(w, md, dst, content) ==
    IF ~md.ok THEN [w |-> [w EXCEPT !.fs = md.f], ok |-> FALSE]
    ELSE IF ~InsideRepo(realpath(md.f, Front(dst)))
    THEN [w |-> [w EXCEPT !.fs = md.f], ok |-> TRUE]
    ELSE [w |-> [w EXCEPT !.fs = put(md.f, dst, File(content))], ok |-> TRUE]

\* One iteration of the loop of lines 269-315 for relpath r.
RestoreOne(w, bd, r) ==
    IF ~IsSafeRelpath(r) \/ IsGitTracked(w, r) \/ BackupFile(w, bd, r) = ""
    THEN [w |-> w, ok |-> TRUE]
    ELSE CopyBack(w, makedirs(w.fs, Front(join(Root, r))), join(Root, r),
                  BackupFile(w, bd, r))

\* The loop of lines 269-315 over the recorded paths.
RECURSIVE RestoreEach(_, _, _)
RestoreRest(one, bd, rest) ==
    IF ~one.ok THEN one ELSE RestoreEach(one.w, bd, rest)
RestoreFrom(w, bd, rs, r) == RestoreRest(RestoreOne(w, bd, r), bd, rs \ {r})
RestoreEach(w, bd, rs) ==
    IF rs = {} THEN [w |-> w, ok |-> TRUE]
    ELSE RestoreFrom(w, bd, rs, CHOOSE x \in rs : TRUE)

\* Lines 318-341: remove the ignored files that are neither recorded nor in
\* the backup.
RemoveNewIgnored(w, bd, pre) ==
    [w EXCEPT !.fs = RemoveAll(@,
        {LPath(w.fs, join(Root, r)) :
            r \in {x \in ListIgnoredFiles(w) \ pre :
                     BackupFile(w, bd, x) = "" /\ IsSafeRelpath(x)}})]

\* _restore_ignored_files (lines 241-341).
RemoveNewAfter(step1, bd, pre) ==
    IF ~step1.ok THEN step1
    ELSE [w |-> RemoveNewIgnored(step1.w, bd, pre), ok |-> TRUE]
RestoreIgnoredFiles(w, bd, pre) ==
    RemoveNewAfter(IF IgnoredRootIsDir(w, bd) THEN RestoreEach(w, bd, pre)
                   ELSE [w |-> w, ok |-> TRUE],
                   bd, pre)

\* A sidecar is present when the file exists and parses as a JSON object
\* (_try_load, lines 106-116).  The hint .git/info/sidecar_backup names the
\* durable copy ("bak"), a file the agent wrote ("forged"), or is missing.
ForgedSidecar == SidecarData("forged", {})
DurableSidecar(w, backup_dir) ==
    IF backup_dir = "bak" /\ w.bak.exists THEN w.bak.sidecar ELSE NoSidecar
HintedSidecar(w) ==
    CASE w.git.hint = "bak" -> IF w.bak.exists THEN w.bak.sidecar
                               ELSE NoSidecar
      [] w.git.hint = "forged" -> ForgedSidecar
      [] OTHER -> NoSidecar

\* The lookup order with the hint consulted first.
SidecarSourceHintFirst(w, backup_dir) ==
    IF HintedSidecar(w).present THEN "hint"
    ELSE IF DurableSidecar(w, backup_dir).present THEN "durable"
    ELSE IF w.sidecar.present THEN "in_repo"
    ELSE "none"

\* Lines 148-175: the source _read_sidecar takes its data from.
SidecarSource(w, backup_dir) ==
    IF DurableSidecar(w, backup_dir).present THEN "durable"
    ELSE IF HintedSidecar(w).present THEN "hint"
    ELSE IF w.sidecar.present THEN "in_repo"
    ELSE "none"

\* _read_sidecar (lines 86-175): the durable copy in the given backup
\* directory, else the copy the hint in .git/info names, else the in-repo one.
SidecarFrom(w, backup_dir, source) ==
    CASE source = "durable" -> DurableSidecar(w, backup_dir)
      [] source = "hint" -> HintedSidecar(w)
      [] OTHER -> w.sidecar
ReadSidecar(w, backup_dir) ==
    SidecarFrom(w, backup_dir, SidecarSource(w, backup_dir))

\* _sanitize_git_history (lines 372-455): back up .git, re-init with one
\* commit, snapshot the ignored files, write sidecar, durable copy and hint.
WithSidecars(snap, data) ==
    [snap EXCEPT !.sidecar = data, !.bak.sidecar = data, !.git.hint = "bak"]
SnapshotIgnored(excl) ==
    WithSidecars(BackupIgnoredFiles(excl),
                 SidecarData("bak", ListIgnoredFiles(excl)))
MoveGitAway(w) ==
    [w EXCEPT !.bak = [NoBackup EXCEPT !.exists = TRUE,
                                       !.git = w.git,
                                       !.gitfiles = GitFilesOf(w.fs)],
              !.git = EmptyGit,
              !.fs = WithGitFiles(@, FreshGitFiles)]
WithExclude(w) == [w EXCEPT !.git.exclude = TRUE]
SanitizeGitHistory(w) ==
    SnapshotIgnored(WithExclude(git_commit(git_add_all(MoveGitAway(w)),
                                           "san", "base")))

\* _make_sanitized_ref (lines 34-41) and the plain ref of a run that does
\* not sanitize.
PlainRef(saved_ref) ==
    [sanitized |-> FALSE, saved_ref |-> saved_ref, backup_dir |-> "",
     branch_head |-> NoCommit]
MakeSanitizedRef(saved_ref, backup_dir, branch_head) ==
    [sanitized |-> TRUE, saved_ref |-> saved_ref,
     backup_dir |-> backup_dir, branch_head |-> branch_head]

\* decode_backup_dir (lines 621-638)
decode_backup_dir(ref) == IF ref.sanitized THEN ref.backup_dir ELSE ""

(***************************************************************************)
(* setup_starting_point, reset_to_baseline and restore_repo as functions   *)
(* of the repository w = [fs, git, bak, sidecar].                          *)
(***************************************************************************)

\* Lines 506-542: the target branch is not the current one: check it out,
\* fetching it (as a branch, then as a PR ref) when the checkout fails.
\* remote: "none" no URL, "branch" the remote has the branch, "pr" it has
\* only the pull/<n>/head ref, "neither".
IsPrBranch(b) == b = "pr_1"
CheckoutOrFetch(first, w, branch, remote) ==
    IF first.ok THEN first
    ELSE IF remote = "branch" \/ (remote = "pr" /\ IsPrBranch(branch))
    THEN git_checkout(git_fetch(w, branch), branch)
    ELSE [w |-> w, ok |-> FALSE]
CheckoutBranch(w, branch, remote) ==
    CheckoutOrFetch(git_checkout(w, branch), w, branch, remote)

SetupRaised(w, mutated) ==
    [w |-> w, raised |-> TRUE, mutated |-> mutated,
     original_ref |-> PlainRef(""), baseline |-> NoCommit]
SetupReturned(w, ref, baseline) ==
    [w |-> w, raised |-> FALSE, mutated |-> TRUE,
     original_ref |-> ref, baseline |-> baseline]

\* Lines 569-575, 595-600 and 612-617: sanitize when asked to, and return
\* the encoded ref with the new HEAD, else the plain ref with the baseline.
Sanitized(sw, saved_ref, branch_head) ==
    SetupReturned(sw, MakeSanitizedRef(saved_ref, "bak", branch_head),
                  HeadCommit(sw.git))
Finish(w, saved_ref, branch_head, sanitize, baseline) ==
    IF sanitize THEN Sanitized(SanitizeGitHistory(w), saved_ref, branch_head)
    ELSE SetupReturned(w, PlainRef(saved_ref), baseline)

\* Lines 568-576 and 594-601: HEAD is the starting point.
FinishWithoutBaseline(w, saved_ref, branch_head, sanitize) ==
    Finish(w, saved_ref, branch_head, sanitize, branch_head)

\* Lines 603-618: commit the baseline, then sanitize.
FinishWithBaseline(w, saved_ref, branch_head, sanitize) ==
    Finish(git_commit(git_add_all(w), "bl", BaselineMsg), saved_ref,
           branch_head, sanitize, "bl")

\* Lines 579-618: after git apply --reverse.
SetupAfterApply(applied, cleaned, saved_ref, branch_head, a) ==
    IF ~applied.ok THEN SetupRaised(cleaned, TRUE)
    ELSE IF ~git_status_dirty(applied.w)
    THEN FinishWithoutBaseline(applied.w, saved_ref, branch_head, a.sanitize)
    ELSE FinishWithBaseline(applied.w, saved_ref, branch_head, a.sanitize)

\* Lines 568-618: after git reset --hard HEAD and git clean -fd.
SetupAfterClean(cleaned, saved_ref, branch_head, a) ==
    IF a.gt_patch = "none"
    THEN FinishWithoutBaseline(cleaned, saved_ref, branch_head, a.sanitize)
    ELSE SetupAfterApply(git_apply_reverse(cleaned, a.gt_patch), cleaned,
                         saved_ref, branch_head, a)
SetupAfterReset(reset, saved_ref, branch_head, a) ==
    IF ~reset.ok THEN SetupRaised(reset.w, TRUE)
    ELSE SetupAfterClean(git_clean(reset.w), saved_ref, branch_head, a)

\* Lines 547-618: from the recording of branch_head on.
SetupFromBranchHead(w, saved_ref, a) ==
    SetupAfterReset(git_reset_hard(w, HeadCommit(w.git)), saved_ref,
                    HeadCommit(w.git), a)
SetupAfterCheckout(co, saved_ref, a) ==
    IF ~co.ok THEN SetupRaised(co.w, FALSE)
    ELSE SetupFromBranchHead(co.w, saved_ref, a)

\* setup_starting_point (lines 458-618).
\* a = [branch, gt_patch, sanitize, remote]; branch "" is no --branch.
\* [w, raised, mutated, original_ref, baseline].
setup_starting_point(w, a) ==
    IF a.gt_patch = "missing" THEN SetupRaised(w, FALSE)
    ELSE SetupAfterCheckout(
             IF a.branch # "" /\ AbbrevRef(w.git) # a.branch
             THEN CheckoutBranch(w, a.branch, a.remote)
             ELSE [w |-> w, ok |-> TRUE],
             IF AbbrevRef(w.git) = "HEAD" THEN HeadCommit(w.git)
             ELSE AbbrevRef(w.git),
             a)

\* Lines 658-660: the source of the sidecar reset_to_baseline reads.
ResetSidecarSource(w, baseline, backup_dir) ==
    SidecarSource(git_clean(git_reset_hard(w, baseline).w), backup_dir)

\* Lines 661-669: restore the ignored files when the sidecar names a backup.
ResetWithSidecar(cleaned, sc) ==
    IF sc.present /\ sc.backup_dir # ""
    THEN RestoreIgnoredFiles(cleaned, sc.backup_dir, sc.pre_agent_ignored)
    ELSE [w |-> cleaned, ok |-> TRUE]
ResetAfterClean(cleaned, backup_dir) ==
    ResetWithSidecar(cleaned, ReadSidecar(cleaned, backup_dir))
ResetAfterReset(reset, backup_dir) ==
    IF ~reset.ok THEN [w |-> reset.w, ok |-> FALSE]
    ELSE ResetAfterClean(git_clean(reset.w), backup_dir)

\* reset_to_baseline (lines 641-669): [w, ok]; ok = FALSE when it raised.
reset_to_baseline(w, baseline, backup_dir) ==
    ResetAfterReset(git_reset_hard(w, baseline), backup_dir)

\* git reset --hard HEAD with check=False.
ResetHardHead(w) == git_reset_hard(w, HeadCommit(w.git)).w

\* restore_repo without the checkout of the saved ref.
SwitchBackSkipped(w, saved_ref) ==
    [w |-> [w EXCEPT !.sidecar = NoSidecar], ok |-> TRUE]

\* Lines 805-816 and 844-852: switch back to the saved ref when HEAD is
\* elsewhere, then remove the in-repo sidecar.
CurrentRef(g) == IF AbbrevRef(g) = "HEAD" THEN HeadCommit(g) ELSE AbbrevRef(g)
AfterSwitch(co) ==
    IF ~co.ok THEN co
    ELSE [w |-> [co.w EXCEPT !.sidecar = NoSidecar], ok |-> TRUE]
SwitchBack(w, saved_ref) ==
    AfterSwitch(IF saved_ref = "" \/ saved_ref = CurrentRef(w.git)
                THEN [w |-> w, ok |-> TRUE]
                ELSE git_checkout(w, saved_ref))

\* Lines 794-816: restore the ignored files, delete the backup, switch back.
SanitizedAfterIgnored(ign, saved_ref) ==
    IF ~ign.ok THEN ign
    ELSE SwitchBack([ign.w EXCEPT !.bak = NoBackup], saved_ref)
SanitizedAfterClean(cleaned, sc, ref) ==
    SanitizedAfterIgnored(
        IF sc.present
        THEN RestoreIgnoredFiles(cleaned, ref.backup_dir,
                                 sc.pre_agent_ignored)
        ELSE [w |-> cleaned, ok |-> TRUE],
        ref.saved_ref)
\* Lines 785-792: reset to the recorded branch head (critical) or to HEAD.
SanitizedAfterCopy(back, sc, ref) ==
    IF ref.branch_head = NoCommit
    THEN SanitizedAfterClean(git_clean(ResetHardHead(back)), sc, ref)
    ELSE IF ~HasCommit(back.git, ref.branch_head)
    THEN [w |-> back, ok |-> FALSE]
    ELSE SanitizedAfterClean(git_clean(git_reset_hard(back,
                                                      ref.branch_head).w),
                             sc, ref)

\* Lines 747-816: the sanitized path of restore_repo.
RestoreSanitized(w, ref) ==
    IF ~(ref.backup_dir = "bak" /\ w.bak.exists)
    THEN [w |-> git_clean(ResetHardHead(w)), ok |-> FALSE]
    ELSE SanitizedAfterCopy([w EXCEPT !.git = w.bak.git,
                                      !.fs = WithGitFiles(@, w.bak.gitfiles)],
                            ReadSidecar(w, ref.backup_dir), ref)

\* Lines 827-852: undo the baseline commit when the run created one.
IsBaselineCommit(g, c) == HasCommit(g, c) /\ g.objs[c].msg = BaselineMsg
ParentOf(g, c) == IF HasCommit(g, c) THEN g.objs[c].parent ELSE NoCommit
PlainAfterUndo(undo, saved_ref) ==
    IF ~undo.ok THEN undo
    ELSE SwitchBack(git_clean(undo.w), saved_ref)
PlainAtBaseline(w, baseline, saved_ref) ==
    PlainAfterUndo(
        IF /\ IsBaselineCommit(w.git, baseline)
           /\ ParentOf(w.git, baseline) \notin {NoCommit, baseline}
        THEN git_reset_hard(w, ParentOf(w.git, baseline))
        ELSE [w |-> ResetHardHead(w), ok |-> TRUE],
        saved_ref)
\* Lines 820-825: away from the baseline, go back to it first.
PlainAfterReset(reset, baseline, saved_ref) ==
    IF ~reset.ok THEN reset
    ELSE PlainAtBaseline(git_clean(reset.w), baseline, saved_ref)

\* Lines 820-852: the non-sanitized path of restore_repo.
RestorePlain(w, ref, baseline) ==
    IF baseline # HeadCommit(w.git)
    THEN PlainAfterReset(git_reset_hard(w, baseline), baseline, ref.saved_ref)
    ELSE PlainAtBaseline(w, baseline, ref.saved_ref)

\* restore_repo (lines 736-852): [w, ok]; ok = FALSE when it raised.
restore_repo(w, ref, baseline) ==
    IF ref.sanitized THEN RestoreSanitized(w, ref)
    ELSE RestorePlain(w, ref, baseline)

(***************************************************************************)
(* The lifecycle as a state machine: the repository, the arguments of the  *)
(* run, what setup_starting_point returned, and the agent acting between   *)
(* the calls of the lifecycle manager.                                     *)
(***************************************************************************)
VARIABLES
    fs,           \* the file system
    git,          \* the git database in <repo>/.git
    bak,          \* the backup directory of the sanitizer
    sidecar,      \* the in-repo sidecar file
    obtained,     \* the patch of the last patch extraction
    args,         \* branch, gt_patch, sanitize and the state of the remote
    phase,        \* "start", "agent", "setup_failed", "restored", ...
    ret,          \* what setup_starting_point returned
    start,        \* the repository before the run
    last,         \* the last operation and whether it raised
    agent_steps,  \* number of agent actions so far
    resets        \* number of reset_to_baseline calls so far

rvars == <<fs, git, bak, sidecar, args, phase, ret, start, last,
           agent_steps, resets, obtained>>


\* Bounds of the exploration.
MaxAgentSteps == 3
MaxResets == 1

W == [fs |-> fs, git |-> git, bak |-> bak, sidecar |-> sidecar]
SetW(w) ==
    /\ fs' = w.fs
    /\ git' = w.git
    /\ bak' = w.bak
    /\ sidecar' = w.sidecar

\* The repository before the run: branch main at c1, branch pr_1 at c2 when
\* it exists locally, two ignored files, one file outside the repository.
StartObjs(pr_local) ==
    [c \in CommitIds |->
        CASE c = "c0" -> Obj("v0", NoCommit, "initial")
          [] c = "c1" -> Obj("v1", "c0", "work")
          [] c = "c2" -> IF pr_local THEN Obj("v2", "c1", "fix") ELSE NoObj
          [] OTHER -> NoObj]
StartGit(head, pr_local, dirty) ==
    LET objs == StartObjs(pr_local)
        refs == [b \in Branches |->
                    CASE b = "main" -> "c1"
                      [] b = "pr_1" -> IF pr_local THEN "c2" ELSE NoCommit
                      [] OTHER -> NoCommit]
        hc == IF head \in Branches THEN refs[head] ELSE head
    IN [sanitized |-> FALSE, head |-> head, refs |-> refs, objs |-> objs,
        index |-> IF dirty = "staged" THEN "staged" ELSE objs[hc].tree,
        exclude |-> FALSE, hint |-> ""]
StartFs(g, dirty) ==
    [n \in Nodes |->
        CASE n = SrcPath -> File(IF dirty = "unstaged" THEN "dirty"
                                 ELSE g.index)
          [] n = EnvPath -> File("secret")
          [] n = Cache -> Dir
          [] n = Cache \o <<"config">> -> File("local")
          [] n = NewPath -> IF dirty = "untracked" THEN File("mine")
                            ELSE NoEnt
          [] n = Git \o <<"config">> -> File("gitconfig")
          [] n = Ext \o <<"config">> -> File("external")
          [] OTHER -> NoEnt]
StartWorld(head, pr_local, dirty) ==
    LET g == StartGit(head, pr_local, dirty) IN
    [fs |-> StartFs(g, dirty), git |-> g, bak |-> NoBackup,
     sidecar |-> NoSidecar]

NoRet == [original_ref |-> PlainRef(""), baseline |-> NoCommit,
          mutated |-> FALSE]
NoArgs == [branch |-> "", gt_patch |-> "none", sanitize |-> TRUE,
           remote |-> "none"]

RInitWith(w, a) ==
    /\ fs = w.fs
    /\ git = w.git
    /\ bak = w.bak
    /\ sidecar = w.sidecar
    /\ args = a
    /\ phase = "start"
    /\ ret = NoRet
    /\ start = w
    /\ last = "init"
    /\ agent_steps = 0
    /\ resets = 0
    /\ obtained = EmptyPatch

\* Every starting repository and every argument combination.
RInit ==
    \E head \in {"main", "pr_1", "c0"}, pr_local \in BOOLEAN,
       dirty \in {"clean", "staged", "unstaged", "untracked"},
       branch \in {"", "main", "pr_1"},
       gt \in {"none", "missing", "fix", "noop"},
       sanitize \in BOOLEAN,
       remote \in {"none", "branch", "pr", "neither"} :
        /\ head = "pr_1" => pr_local
        /\ RInitWith(StartWorld(head, pr_local, dirty),
                     [branch |-> branch, gt_patch |-> gt,
                      sanitize |-> sanitize, remote |-> remote])

\* A clean repository on main, sanitized run without a ground-truth patch,
\* on the current branch or on pr_1.
RInitIgnored ==
    \E branch \in {"", "pr_1"} :
        RInitWith(StartWorld("main", TRUE, "clean"),
                  [NoArgs EXCEPT !.branch = branch])

\* A clean repository on main, sanitized run as the handler starts it, with
\* or without a ground-truth patch, on the current branch or on pr_1.
RInitRetry ==
    \E branch \in {"", "pr_1"}, gt \in {"none", "fix"} :
        RInitWith(StartWorld("main", TRUE, "clean"),
                  [NoArgs EXCEPT !.branch = branch, !.gt_patch = gt])

\* A repository whose tip of main is a commit with the message of a baseline
\* commit: the commit an earlier run made and did not live to remove.
WithLeftoverBaseline(w) == [w EXCEPT !.git.objs["c1"].msg = BaselineMsg]

\* Runs that do not sanitize, from a repository with or without such a
\* commit.
RInitPlain ==
    \E head \in {"main", "pr_1", "c0"}, leftover \in BOOLEAN,
       dirty \in {"clean", "unstaged"}, branch \in {"", "main", "pr_1"},
       gt \in {"none", "fix", "noop"} :
        RInitWith(IF leftover
                  THEN WithLeftoverBaseline(StartWorld(head, TRUE, dirty))
                  ELSE StartWorld(head, TRUE, dirty),
                  [branch |-> branch, gt_patch |-> gt, sanitize |-> FALSE,
                   remote |-> "none"])

\* The handler's call of setup_starting_point (command.py lines 152-163).
Setup ==
    /\ phase = "start"
    /\ \E r \in {setup_starting_point(W, args)} :
         /\ SetW(r.w)
         /\ ret' = [original_ref |-> r.original_ref,
                    baseline |-> r.baseline, mutated |-> r.mutated]
         /\ phase' = IF r.raised THEN "setup_failed" ELSE "agent"
         /\ last' = IF r.raised THEN "setup_raised" ELSE "setup_ok"
    /\ UNCHANGED <<args, start, agent_steps, resets, obtained>>

\* The handler's call of reset_to_baseline before a retry (lines 180-184),
\* with the backup directory decoded from original_ref.
ResetToBaseline ==
    /\ phase = "agent"
    /\ resets < MaxResets
    /\ \E r \in {reset_to_baseline(W, ret.baseline,
                                   decode_backup_dir(ret.original_ref))} :
         /\ SetW(r.w)
         /\ last' = IF r.ok THEN "reset_ok" ELSE "reset_raised"
    /\ resets' = resets + 1
    /\ UNCHANGED <<args, phase, ret, start, agent_steps, obtained>>

\* The handler's call of restore_repo in the finally block (line 372).
RestoreRepo ==
    /\ phase = "agent"
    /\ \E r \in {restore_repo(W, ret.original_ref, ret.baseline)} :
         /\ SetW(r.w)
         /\ phase' = IF r.ok THEN "restored" ELSE "restore_failed"
         /\ last' = IF r.ok THEN "restore_ok" ELSE "restore_raised"
    /\ UNCHANGED <<args, ret, start, agent_steps, resets, obtained>>

AgentMay == phase = "agent" /\ agent_steps < MaxAgentSteps
AgentDid ==
    /\ agent_steps' = agent_steps + 1
    /\ last' = "agent"
    /\ UNCHANGED <<args, phase, ret, start, resets, obtained>>

\* The agent edits the tracked file.
AgentEditTracked ==
    /\ AgentMay
    /\ fs' = [fs EXCEPT ![SrcPath] = File("agent")]
    /\ UNCHANGED <<git, bak, sidecar>>
    /\ AgentDid

\* The agent creates an untracked file.
AgentCreateFile ==
    /\ AgentMay
    /\ fs' = [fs EXCEPT ![NewPath] = File("agent")]
    /\ UNCHANGED <<git, bak, sidecar>>
    /\ AgentDid

\* The agent stages everything and commits.
AgentCommit ==
    /\ AgentMay
    /\ HeadCommit(git) # NoCommit
    /\ SetW(git_commit(git_add_all(W), "ag", "agent"))
    /\ AgentDid

\* The agent stages its changes (git add -A).
AgentStage ==
    /\ AgentMay
    /\ SetW(git_add_all(W))
    /\ AgentDid

\* The agent creates an ignored file: in the ignored directory, or in a new
\* directory (with or without an untracked file next to it).
AgentCreateIgnored ==
    /\ AgentMay
    /\ \/ /\ isdir(fs, Cache) /\ ~islink(fs, Cache)
          /\ fs' = [fs EXCEPT ![Cache \o <<"src">>] = File("agent")]
       \/ \E x \in {NoEnt, File("agent")} :
            fs' = [fs EXCEPT ![Root \o <<"sub">>] = Dir,
                             ![SubEnvPath] = File("agent"),
                             ![Root \o <<"sub", "x">>] = x]
    /\ UNCHANGED <<git, bak, sidecar>>
    /\ AgentDid

\* The handler's patch extraction after the agent's reply (lines 199-204).
ExtractAgentPatch ==
    /\ phase = "agent"
    /\ \E r \in {IF has_repo_changes(W) THEN get_patch(W)
                  ELSE [w |-> W, patch |-> EmptyPatch]} :
         /\ SetW(r.w)
         /\ obtained' = r.patch
    /\ last' = "patch"
    /\ UNCHANGED <<args, phase, ret, start, agent_steps, resets>>

IgnoredAtStart == {".env", "cache/config"}
ParentIsDir(r) == isdir(fs, Front(join(Root, r))) /\ ~islink(fs, Front(join(Root, r)))

\* The agent edits, deletes or replaces (by a directory or a link) one of
\* the ignored files.
AgentChangeIgnored ==
    /\ AgentMay
    /\ \E r \in IgnoredAtStart :
       \E e \in {File("edited"), NoEnt, Dir, Link("extfile"),
                 Link("dangling")} :
         /\ ParentIsDir(r)
         /\ fs' = put(fs, join(Root, r), e)
    /\ UNCHANGED <<git, bak, sidecar>>
    /\ AgentDid

\* The agent replaces the ignored directory cache by a link or a file.
AgentReplaceParent ==
    /\ AgentMay
    /\ \E e \in {Link("ext"), Link("git"), Link("root"), Link("dangling"),
                 File("agent")} :
         fs' = put(fs, Cache, e)
    /\ UNCHANGED <<git, bak, sidecar>>
    /\ AgentDid

\* Paths the agent adds to a sidecar or plants in the backup.
TamperEntries == {"cache/sub/x", "cache/src", "src", ".git/config",
                  "/ext/config", "../ext/config"}

\* The agent unlocks the durable sidecar and rewrites pre_agent_ignored.
AgentTamperSidecar ==
    /\ AgentMay
    /\ bak.exists
    /\ \E pre \in {{}} \cup {bak.sidecar.pre_agent_ignored \cup {r} :
                               r \in TamperEntries} :
         bak' = [bak EXCEPT !.sidecar.pre_agent_ignored = pre]
    /\ UNCHANGED <<fs, git, sidecar>>
    /\ AgentDid

\* The agent plants a file below <backup>/ignored/.
AgentPlantPayload ==
    /\ AgentMay
    /\ bak.exists
    /\ \E r \in {x \in TamperEntries : ~isabs(x)} :
         bak' = [bak EXCEPT !.ignored[r] = "payload"]
    /\ UNCHANGED <<fs, git, sidecar>>
    /\ AgentDid

\* The agent runs git init in the ignored directory.
AgentInitNestedRepo ==
    /\ AgentMay
    /\ fs[Cache] = Dir
    /\ fs' = [fs EXCEPT ![Cache] = NestedRepo]
    /\ UNCHANGED <<git, bak, sidecar>>
    /\ AgentDid

\* The agent deletes the hint file or points it to a file it wrote.
AgentRetargetHint ==
    /\ AgentMay
    /\ \E h \in {"", "forged"} : git' = [git EXCEPT !.hint = h]
    /\ UNCHANGED <<fs, bak, sidecar>>
    /\ AgentDid

\* The agent deletes or rewrites the in-repo sidecar.
AgentRewriteInRepoSidecar ==
    /\ AgentMay
    /\ \E sc \in {NoSidecar, ForgedSidecar, SidecarData("bak", {})} :
         sidecar' = sc
    /\ UNCHANGED <<fs, git, bak>>
    /\ AgentDid

\* The agent unlocks the backup directory and deletes the durable sidecar
\* (or leaves it unparsable).
AgentRemoveDurableSidecar ==
    /\ AgentMay
    /\ bak.exists
    /\ bak' = [bak EXCEPT !.sidecar = NoSidecar]
    /\ UNCHANGED <<fs, git, sidecar>>
    /\ AgentDid

(***************************************************************************)
(* _sanitize_git_history and the sanitized path of restore_repo, statement *)
(* by statement, with the failures of each statement.  An entry is         *)
(* "original" (the complete .git of the repository before the run),        *)
(* "fresh" (the re-initialised .git), "part_original" or "part_fresh" (an  *)
(* incomplete tree left by a copy, a removal or an init that failed        *)
(* half-way), "agent" (what the agent put there) or "none".                *)
(***************************************************************************)
VARIABLES
    spc,           \* the statement to run next
    git_entry,     \* <repo>/.git
    backup_entry,  \* <backup_dir>/.git
    git_kind,      \* .git is a directory or a file (worktree)
    has_branch_head,   \* restore_repo has a branch head to reset to
    sidecar_data,  \* what restore_repo's _read_sidecar returned
    restore_done   \* the statements of restore_repo that have completed

svars == <<spc, git_entry, backup_entry, git_kind, has_branch_head,
           sidecar_data, restore_done>>

SInit ==
    /\ spc = "backup"
    /\ git_entry = "original"
    /\ backup_entry = "none"
    /\ git_kind \in {"dir", "file"}
    /\ has_branch_head \in BOOLEAN
    /\ sidecar_data = "unread"
    /\ restore_done = {}

\* What a copy or a removal that raised half-way leaves of a directory; a
\* single file is copied or removed, or not.
Partial(e) ==
    CASE e \in {"original", "part_original"} -> "part_original"
      [] e \in {"fresh", "part_fresh", "agent"} -> "part_fresh"
      [] OTHER -> "none"
Leftovers(e) == IF git_kind = "dir" THEN {e, Partial(e), "none"} ELSE {e, "none"}

SStep(to) ==
    /\ spc' = to
    /\ UNCHANGED <<git_kind, has_branch_head, sidecar_data, restore_done>>

\* Lines 387-392: mkdtemp, then copytree or copy2 of .git to the backup.
BackupGit ==
    /\ spc = "backup"
    /\ \/ /\ backup_entry' = git_entry
          /\ SStep("remove_original")
       \/ /\ backup_entry' \in (Leftovers(git_entry) \ {git_entry})
          /\ SStep("raised")
    /\ UNCHANGED git_entry

\* Line 393: _remove_git_entry(git_dir).
RemoveOriginal ==
    /\ spc = "remove_original"
    /\ \/ /\ git_entry' = "none"
          /\ SStep("init")
       \/ /\ git_entry' \in (Leftovers(git_entry) \ {"none"})
          /\ SStep("raised")
    /\ UNCHANGED backup_entry

\* Lines 395-400: git init, config, add, commit; any of them may raise.
ReInit ==
    /\ spc = "init"
    /\ \/ /\ git_entry' = "fresh"
          /\ SStep("agent")
       \/ /\ git_entry' \in {"none", "part_fresh"}
          /\ SStep("clear_partial")
    /\ UNCHANGED backup_entry

\* The except block deleting the backup before it is copied back.
FailureStepsBackupDroppedFirst ==
    <<"clear_partial", "drop_backup", "copy_back", "reraised">>

\* Lines 401-412: the statements of the except block, then the re-raise.
FailureSteps == <<"clear_partial", "copy_back", "drop_backup", "reraised">>
StepAfter(st) ==
    FailureSteps[1 + CHOOSE i \in DOMAIN FailureSteps : FailureSteps[i] = st]

\* Line 406: _remove_git_entry(git_dir) removes the partial init.
ClearPartialInit ==
    /\ spc = "clear_partial"
    /\ \/ /\ git_entry' = "none"
          /\ SStep(StepAfter("clear_partial"))
       \/ /\ git_entry # "none"
          /\ git_entry' = git_entry
          /\ SStep("raised")
    /\ UNCHANGED backup_entry

\* Lines 407-410: copytree or copy2 of the backup into the repository.
CopyBackupBack ==
    /\ spc = "copy_back"
    /\ \/ /\ git_entry' = backup_entry
          /\ SStep(StepAfter("copy_back"))
       \/ /\ git_entry' \in (Leftovers(backup_entry) \ {backup_entry})
          /\ SStep("raised")
    /\ UNCHANGED backup_entry

\* Line 411: _remove_git_entry(backup_dir).
DropBackup ==
    /\ spc = "drop_backup"
    /\ \/ /\ backup_entry' = "none"
          /\ SStep(StepAfter("drop_backup"))
       \/ /\ backup_entry' \in (Leftovers(backup_entry) \ {"none"})
          /\ SStep("raised")
    /\ UNCHANGED git_entry

\* The agent works in the re-initialised repository: it commits, deletes
\* .git or replaces it.
AgentOnGitEntry ==
    /\ spc = "agent"
    /\ git_entry' \in {"fresh", "agent", "none"} \ {git_entry}
    /\ SStep("agent")
    /\ UNCHANGED backup_entry

\* The restore with the backup directory deleted before the ignored files
\* are restored from it.
RestoreStepsBackupDroppedEarly ==
    <<"restore_read", "restore_find", "restore_remove", "restore_copy",
      "restore_reset", "restore_drop", "restore_ignored", "restore_switch",
      "restored">>

\* Lines 745-816: the statements of the sanitized path of restore_repo.
RestoreSteps ==
    <<"restore_read", "restore_find", "restore_remove", "restore_copy",
      "restore_reset", "restore_ignored", "restore_drop", "restore_switch",
      "restored">>
RestoreStepAfter(st) ==
    RestoreSteps[1 + CHOOSE i \in DOMAIN RestoreSteps : RestoreSteps[i] = st]

\* Statement st of restore_repo completes, or raises.
RStep(st, ok) ==
    /\ spc' = IF ok THEN RestoreStepAfter(st) ELSE "raised"
    /\ restore_done' = IF ok THEN restore_done \cup {st} ELSE restore_done
    /\ UNCHANGED <<git_kind, has_branch_head>>

\* Lines 750-758: _read_sidecar with the backup directory of the token; it
\* returns the data of a copy or None, and does not raise.
RestoreReadsSidecar ==
    /\ spc = "agent"
    /\ sidecar_data' \in {"found", "none"}
    /\ spc' = RestoreStepAfter("restore_read")
    /\ restore_done' = {"restore_read"}
    /\ UNCHANGED <<git_entry, backup_entry, git_kind, has_branch_head>>

\* Lines 761-770: restore_repo finds the backup, or cleans and raises.
RestoreFindsBackup ==
    /\ spc = "restore_find"
    /\ RStep("restore_find", backup_entry # "none")
    /\ UNCHANGED <<git_entry, backup_entry, sidecar_data>>

\* Line 772: _remove_git_entry(git_dir).
RestoreRemovesFresh ==
    /\ spc = "restore_remove"
    /\ \/ /\ git_entry' = "none"
          /\ RStep("restore_remove", TRUE)
       \/ /\ git_entry # "none"
          /\ git_entry' \in (Leftovers(git_entry) \ {"none"})
          /\ RStep("restore_remove", FALSE)
    /\ UNCHANGED <<backup_entry, sidecar_data>>

\* Lines 773-776: copytree or copy2 of the backup into the repository.
RestoreCopiesBack ==
    /\ spc = "restore_copy"
    /\ \/ /\ git_entry' = backup_entry
          /\ RStep("restore_copy", TRUE)
       \/ /\ git_entry' \in (Leftovers(backup_entry) \ {backup_entry})
          /\ RStep("restore_copy", FALSE)
    /\ UNCHANGED <<backup_entry, sidecar_data>>

\* Lines 783-790: reset to the branch head (raises when it fails) or to
\* HEAD (never raises), then clean.
RestoreResets ==
    /\ spc = "restore_reset"
    /\ \E ok \in {TRUE} \cup {~has_branch_head} : RStep("restore_reset", ok)
    /\ UNCHANGED <<git_entry, backup_entry, sidecar_data>>

\* Lines 794-799: _restore_ignored_files, which may raise; it is not called
\* when no sidecar was read.
RestoreIgnored ==
    /\ spc = "restore_ignored"
    /\ IF sidecar_data = "found"
       THEN \E ok \in BOOLEAN : RStep("restore_ignored", ok)
       ELSE /\ spc' = RestoreStepAfter("restore_ignored")
            /\ UNCHANGED <<git_kind, has_branch_head, restore_done>>
    /\ UNCHANGED <<git_entry, backup_entry, sidecar_data>>

\* Line 802: _remove_git_entry(backup_dir).
RestoreDropsBackup ==
    /\ spc = "restore_drop"
    /\ \/ /\ backup_entry' = "none"
          /\ RStep("restore_drop", TRUE)
       \/ /\ backup_entry' \in (Leftovers(backup_entry) \ {"none"})
          /\ RStep("restore_drop", FALSE)
    /\ UNCHANGED <<git_entry, sidecar_data>>

\* Lines 805-816: switch back to the saved ref (raises when it fails).
RestoreSwitchesBack ==
    /\ spc = "restore_switch"
    /\ \E ok \in BOOLEAN : RStep("restore_switch", ok)
    /\ UNCHANGED <<git_entry, backup_entry, sidecar_data>>

(***************************************************************************)
(* The partial-setup cleanup of the handler (command.py lines 383-423),    *)
(* statement by statement, on the repository [fs, git, bak, sidecar].      *)
(***************************************************************************)
VARIABLES
    cpc,            \* position in the cleanup
    printed_dir,    \* backup directory named in the warning, "" when none
    forged_dir,     \* another agent_eval_git_bak_* directory in the temp dir
    pre_setup_ref,  \* ref the handler recorded before setup (lines 138-142)
    cleanup_from    \* repository and forged directory when the cleanup began

cvars == <<cpc, printed_dir, forged_dir, pre_setup_ref, cleanup_from>>

\* How far the sanitizer's bookkeeping got when setup_starting_point was
\* left by an exception or an interrupt after the re-init (lines 416-454):
\* while the ignored files were copied, or with the in-repo sidecar, the
\* durable copy or the hint as the last thing written.
LateStages == {"snapshot", "sidecar", "durable", "hint"}
InterruptedAt(w, stage) ==
    CASE stage = "snapshot" -> [w EXCEPT !.sidecar = NoSidecar,
                                         !.bak.sidecar = NoSidecar,
                                         !.bak.ignored = NoFiles,
                                         !.git.hint = ""]
      [] stage = "sidecar" -> [w EXCEPT !.bak.sidecar = NoSidecar,
                                        !.git.hint = ""]
      [] stage = "durable" -> [w EXCEPT !.git.hint = ""]
      [] OTHER -> w

\* The repository a partial setup leaves: the one of a raise after
\* _mark_mutated, or the sanitized one when the exception came late; planted
\* is an in-repo sidecar the repository already carried.
PartialSetup(r, stage, planted) ==
    IF r.raised
    THEN [r.w EXCEPT !.sidecar = IF planted THEN ForgedSidecar ELSE @]
    ELSE InterruptedAt(r.w, stage)

CInit ==
    \E head \in {"main", "c0"}, dirty \in {"clean", "unstaged", "untracked"},
       branch \in {"", "pr_1"}, gt \in {"none", "fix"},
       stage \in LateStages, planted \in BOOLEAN,
       forged \in {"absent", "plausible"} :
      \E r \in {setup_starting_point(
                    StartWorld(head, TRUE, dirty),
                    [branch |-> branch, gt_patch |-> gt, sanitize |-> TRUE,
                     remote |-> "none"])} :
        /\ r.mutated
        /\ r.raised => stage = "hint"
        /\ ~r.raised => ~planted
        /\ RInitWith(PartialSetup(r, stage, planted),
                     [branch |-> branch, gt_patch |-> gt, sanitize |-> TRUE,
                      remote |-> "none"])
        /\ cpc = "recover"
        /\ printed_dir = ""
        /\ forged_dir = forged
        /\ pre_setup_ref = CurrentRef(StartGit(head, TRUE, dirty))
        /\ cleanup_from = [w |-> PartialSetup(r, stage, planted),
                           forged |-> forged]

CStep(w, to) ==
    /\ SetW(w)
    /\ cpc' = to
    /\ UNCHANGED <<args, phase, ret, start, last, agent_steps, resets,
                   obtained, pre_setup_ref, cleanup_from>>

\* _is_plausible_backup_dir (lines 672-705): a directory in the temp
\* directory with the prefix agent_eval_git_bak_ that holds a .git entry.
is_plausible_backup_dir(w, fd, bd) ==
    \/ bd = "bak" /\ w.bak.exists
    \/ bd = "forged" /\ fd = "plausible"

\* recover_sanitize_backup (lines 707-727): the backup_dir of the sidecar
\* that _read_sidecar finds without a trusted directory, when plausible.
recover_sanitize_backup(w, fd) ==
    IF ReadSidecar(w, "").present
       /\ is_plausible_backup_dir(w, fd, ReadSidecar(w, "").backup_dir)
    THEN ReadSidecar(w, "").backup_dir
    ELSE ""

\* Lines 391-393 with the .git of the named directory copied into the
\* repository and the directory removed.
NamedBackupRestored(w, fd, bd) ==
    CASE bd = "bak" ->
            [w |-> [w EXCEPT !.git = w.bak.git,
                             !.fs = WithGitFiles(@, w.bak.gitfiles),
                             !.bak = NoBackup],
             fd |-> fd]
      [] bd = "forged" ->
            [w |-> [w EXCEPT !.fs[Git \o <<"config">>] = File("forged")],
             fd |-> "absent"]
      [] OTHER -> [w |-> w, fd |-> fd]
\* Lines 391-393: the named directory is only mentioned in a warning.
NamedBackupUse(w, fd, bd) == [w |-> w, fd |-> fd]

\* Lines 390-393.
CleanupRecover ==
    /\ cpc = "recover"
    /\ \E bd \in {recover_sanitize_backup(W, forged_dir)} :
        \E u \in {NamedBackupUse(W, forged_dir, bd)} :
         /\ printed_dir' = bd
         /\ forged_dir' = u.fd
         /\ CStep(u.w, "remove_sidecar")

\* Line 396: _remove_sanitize_sidecar; os.remove may raise.
CleanupRemoveSidecar ==
    /\ cpc = "remove_sidecar"
    /\ \/ CStep([W EXCEPT !.sidecar = NoSidecar], "reset")
       \/ sidecar.present /\ CStep(W, "failed")
    /\ UNCHANGED <<printed_dir, forged_dir>>

\* Line 398: git reset --hard HEAD, its status ignored.
CleanupReset ==
    /\ cpc = "reset"
    /\ CStep(git_reset_hard(W, HeadCommit(git)).w, "clean")
    /\ UNCHANGED <<printed_dir, forged_dir>>

\* Line 399: git clean -fd, its status ignored.
CleanupClean ==
    /\ cpc = "clean"
    /\ CStep(git_clean(W), "drop_baseline")
    /\ UNCHANGED <<printed_dir, forged_dir>>

\* Lines 401-410: a leftover baseline commit is reset away.
HeadIsBaseline(g) ==
    /\ HeadCommit(g) # NoCommit
    /\ g.objs[HeadCommit(g)].msg = BaselineMsg
    /\ HasCommit(g, g.objs[HeadCommit(g)].parent)
CleanupDropBaseline ==
    /\ cpc = "drop_baseline"
    /\ IF HeadIsBaseline(git)
       THEN \E r \in {git_reset_hard(W, git.objs[HeadCommit(git)].parent)} :
              CStep(r.w, IF r.ok THEN "switch" ELSE "failed")
       ELSE CStep(W, "switch")
    /\ UNCHANGED <<printed_dir, forged_dir>>

\* Lines 412-419: back to the ref recorded before setup.
CleanupSwitchBack ==
    /\ cpc = "switch"
    /\ IF pre_setup_ref # "" /\ pre_setup_ref # CurrentRef(git)
       THEN \E r \in {git_checkout(W, pre_setup_ref)} :
              CStep(r.w, IF r.ok THEN "done" ELSE "failed")
       ELSE CStep(W, "done")
    /\ UNCHANGED <<printed_dir, forged_dir>>

CIdle ==
    /\ cpc = "idle"
    /\ printed_dir = ""
    /\ forged_dir = "absent"
    /\ pre_setup_ref = ""
    /\ cleanup_from = [w |-> StartWorld("main", TRUE, "clean"),
                       forged |-> "absent"]

(***************************************************************************)
(* Patch text (patch_utils.py).  A text is a sequence of lines, a line a   *)
(* sequence of characters.                                                 *)
(***************************************************************************)
\* The characters of the text fragments git's output is made of.
Chars(s) ==
    CASE s = "diff --git " ->
            <<"d", "i", "f", "f", " ", "-", "-", "g", "i", "t", " ">>
      [] s = "a/" ->
            <<"a", "/">>
      [] s = "b/" ->
            <<"b", "/">>
      [] s = " " ->
            <<" ">>
      [] s = "\"" ->
            <<"\"">>
      [] s = ".agent_eval_sanitize_meta.json" ->
            <<".", "a", "g", "e", "n", "t", "_", "e", "v", "a", "l", "_", "s", "a", "n", "i", "t", "i", "z", "e", "_", "m", "e", "t", "a", ".", "j", "s", "o", "n">>
      [] s = "src.py" ->
            <<"s", "r", "c", ".", "p", "y">>
      [] s = "lib.py" ->
            <<"l", "i", "b", ".", "p", "y">>
      [] s = "new.py" ->
            <<"n", "e", "w", ".", "p", "y">>
      [] s = "q.sql" ->
            <<"q", ".", "s", "q", "l">>
      [] s = "b.bin" ->
            <<"b", ".", "b", "i", "n">>
      [] s = "notes.txt" ->
            <<"n", "o", "t", "e", "s", ".", "t", "x", "t">>
      [] s = "caf\\303\\251.json" ->
            <<"c", "a", "f", "\\", "3", "0", "3", "\\", "2", "5", "1", ".", "j", "s", "o", "n">>
      [] s = "-notes" ->
            <<"-", "n", "o", "t", "e", "s">>
      [] s = "sub/" ->
            <<"s", "u", "b", "/">>
      [] s = "new file mode " ->
            <<"n", "e", "w", " ", "f", "i", "l", "e", " ", "m", "o", "d", "e", " ">>
      [] s = "deleted file mode " ->
            <<"d", "e", "l", "e", "t", "e", "d", " ", "f", "i", "l", "e", " ", "m", "o", "d", "e", " ">>
      [] s = "new file" ->
            <<"n", "e", "w", " ", "f", "i", "l", "e">>
      [] s = "deleted file" ->
            <<"d", "e", "l", "e", "t", "e", "d", " ", "f", "i", "l", "e">>
      [] s = "old mode " ->
            <<"o", "l", "d", " ", "m", "o", "d", "e", " ">>
      [] s = "new mode " ->
            <<"n", "e", "w", " ", "m", "o", "d", "e", " ">>
      [] s = "100644" ->
            <<"1", "0", "0", "6", "4", "4">>
      [] s = "100755" ->
            <<"1", "0", "0", "7", "5", "5">>
      [] s = "index " ->
            <<"i", "n", "d", "e", "x", " ">>
      [] s = "e69de29" ->
            <<"e", "6", "9", "d", "e", "2", "9">>
      [] s = "0000000" ->
            <<"0", "0", "0", "0", "0", "0", "0">>
      [] s = "147302c" ->
            <<"1", "4", "7", "3", "0", "2", "c">>
      [] s = "ab290eb" ->
            <<"a", "b", "2", "9", "0", "e", "b">>
      [] s = ".." ->
            <<".", ".">>
      [] s = "--- " ->
            <<"-", "-", "-", " ">>
      [] s = "+++ " ->
            <<"+", "+", "+", " ">>
      [] s = "/dev/null" ->
            <<"/", "d", "e", "v", "/", "n", "u", "l", "l">>
      [] s = "@@ -1 +1 @@" ->
            <<"@", "@", " ", "-", "1", " ", "+", "1", " ", "@", "@">>
      [] s = "@@ -0,0 +1 @@" ->
            <<"@", "@", " ", "-", "0", ",", "0", " ", "+", "1", " ", "@", "@">>
      [] s = "@@ -1 +0,0 @@" ->
            <<"@", "@", " ", "-", "1", " ", "+", "0", ",", "0", " ", "@", "@">>
      [] s = "@@ -1,2 +1,3 @@" ->
            <<"@", "@", " ", "-", "1", ",", "2", " ", "+", "1", ",", "3", " ", "@", "@">>
      [] s = "+" ->
            <<"+">>
      [] s = "-" ->
            <<"-">>
      [] s = "v1" ->
            <<"v", "1">>
      [] s = "v2" ->
            <<"v", "2">>
      [] s = "-- only" ->
            <<"-", "-", " ", "o", "n", "l", "y">>
      [] s = "++ x" ->
            <<"+", "+", " ", "x">>
      [] s = "select 1;" ->
            <<"s", "e", "l", "e", "c", "t", " ", "1", ";">>
      [] s = "{}" ->
            <<"{", "}">>
      [] s = "similarity index 100%" ->
            <<"s", "i", "m", "i", "l", "a", "r", "i", "t", "y", " ", "i", "n", "d", "e", "x", " ", "1", "0", "0", "%">>
      [] s = "similarity index 88%" ->
            <<"s", "i", "m", "i", "l", "a", "r", "i", "t", "y", " ", "i", "n", "d", "e", "x", " ", "8", "8", "%">>
      [] s = "rename from " ->
            <<"r", "e", "n", "a", "m", "e", " ", "f", "r", "o", "m", " ">>
      [] s = "rename to " ->
            <<"r", "e", "n", "a", "m", "e", " ", "t", "o", " ">>
      [] s = "Binary files " ->
            <<"B", "i", "n", "a", "r", "y", " ", "f", "i", "l", "e", "s", " ">>
      [] s = " and " ->
            <<" ", "a", "n", "d", " ">>
      [] s = " differ" ->
            <<" ", "d", "i", "f", "f", "e", "r">>

\* The line made of the given fragments.
RECURSIVE Line(_)
Line(fragments) ==
    IF fragments = <<>> THEN <<>>
    ELSE Chars(Head(fragments)) \o Line(Tail(fragments))

\* str.startswith, str.endswith, `p in s`, str.rstrip and str.strip on one
\* line.
StartsWith(l, p) == Len(l) >= Len(p) /\ SubSeq(l, 1, Len(p)) = p
EndsWith(l, p) ==
    Len(l) >= Len(p) /\ SubSeq(l, Len(l) - Len(p) + 1, Len(l)) = p
Contains(l, p) ==
    \E i \in 1..(Len(l) - Len(p) + 1) : SubSeq(l, i, i + Len(p) - 1) = p
IsSpace(c) == c \in {" ", "\t"}
RECURSIVE rstrip(_)
rstrip(l) ==
    IF l # <<>> /\ IsSpace(l[Len(l)]) THEN rstrip(SubSeq(l, 1, Len(l) - 1))
    ELSE l
RECURSIVE lstrip(_)
lstrip(l) == IF l # <<>> /\ IsSpace(Head(l)) THEN lstrip(Tail(l)) ELSE l
IsBlank(l) == rstrip(l) = <<>>

\* str.strip() of a whole text, then splitlines().
RECURSIVE DropBlankHead(_)
DropBlankHead(t) ==
    IF t # <<>> /\ IsBlank(Head(t)) THEN DropBlankHead(Tail(t)) ELSE t
RECURSIVE DropBlankTail(_)
DropBlankTail(t) ==
    IF t # <<>> /\ IsBlank(t[Len(t)])
    THEN DropBlankTail(SubSeq(t, 1, Len(t) - 1))
    ELSE t
StripEnds(t) ==
    IF Len(t) = 1 THEN <<rstrip(lstrip(t[1]))>>
    ELSE <<lstrip(t[1])>> \o SubSeq(t, 2, Len(t) - 1)
         \o <<rstrip(t[Len(t)])>>
StripLines(t) ==
    IF DropBlankTail(DropBlankHead(t)) = <<>> THEN <<>>
    ELSE StripEnds(DropBlankTail(DropBlankHead(t)))

\* _HUNK_RE (line 8): ^@@ -\d+(?:,\d+)? \+\d+(?:,\d+)? @@
IsDigit(c) == c \in {"0", "1", "2", "3", "4", "5", "6", "7", "8", "9"}
RECURSIVE SkipDigits(_)
SkipDigits(l) == IF l # <<>> /\ IsDigit(Head(l)) THEN SkipDigits(Tail(l)) ELSE l
\* \d+(?:,\d+)? at the head of l: what follows it, or "nomatch".
AfterCount(rest) ==
    IF Len(rest) >= 2 /\ rest[1] = "," /\ IsDigit(rest[2])
    THEN SkipDigits(Tail(rest))
    ELSE rest
AfterRange(l) ==
    IF l = <<>> \/ ~IsDigit(Head(l)) THEN <<"nomatch">>
    ELSE AfterCount(SkipDigits(l))
HunkTail(l) ==
    /\ StartsWith(l, <<" ", "+">>)
    /\ StartsWith(AfterRange(SubSeq(l, 3, Len(l))), <<" ", "@", "@">>)
HUNK_RE(l) ==
    /\ StartsWith(l, <<"@", "@", " ", "-">>)
    /\ HunkTail(AfterRange(SubSeq(l, 5, Len(l))))

\* _SANITIZE_SIDECAR (git_helpers.py line 18) and _INTERNAL_FILES.
SANITIZE_SIDECAR == ".agent_eval_sanitize_meta.json"

\* _is_internal_diff (lines 14-23).
is_internal_diff(header) ==
    \/ Contains(header, Line(<<"a/", SANITIZE_SIDECAR, " ", "b/">>))
    \/ EndsWith(rstrip(header), Line(<<"b/", SANITIZE_SIDECAR>>))

\* _strip_internal_files (lines 26-39).
IsDiffHeader(l) == StartsWith(l, Line(<<"diff --git ">>))
RECURSIVE StripFrom(_, _)
StripFrom(lines, skip) ==
    IF lines = <<>> THEN <<>>
    ELSE IF IsDiffHeader(Head(lines))
    THEN IF is_internal_diff(Head(lines)) THEN StripFrom(Tail(lines), TRUE)
         ELSE <<Head(lines)>> \o StripFrom(Tail(lines), FALSE)
    ELSE IF skip THEN StripFrom(Tail(lines), skip)
    ELSE <<Head(lines)>> \o StripFrom(Tail(lines), skip)
strip_internal_files(text) ==
    IF StripLines(StripFrom(text, FALSE)) = <<>> THEN <<>>
    ELSE StripFrom(text, FALSE)

\* validate_patch (lines 101-171) on a patch text.
\* The blocks: a new one at every 'diff --git ' line (lines 117-122).
RECURSIVE SplitBlocks(_, _)
SplitBlocks(lines, blocks) ==
    IF lines = <<>> THEN blocks
    ELSE IF IsDiffHeader(Head(lines))
    THEN SplitBlocks(Tail(lines), Append(blocks, <<Head(lines)>>))
    ELSE IF blocks # <<>>
    THEN SplitBlocks(Tail(lines),
                     [blocks EXCEPT ![Len(blocks)] = Append(@, Head(lines))])
    ELSE SplitBlocks(Tail(lines), blocks)
AnyStarts(block, fragment) ==
    \E i \in 1..Len(block) : StartsWith(block[i], Line(<<fragment>>))
HasHunk(block) == \E i \in 1..Len(block) : HUNK_RE(block[i])
\* Lines 135-144: a block of metadata only.
MetadataOnly(block) ==
    \/ AnyStarts(block, "rename from ") /\ AnyStarts(block, "rename to ")
    \/ AnyStarts(block, "old mode ") /\ AnyStarts(block, "new mode ")
    \/ AnyStarts(block, "Binary files ")
\* Lines 157-165: a line that ends a hunk, a line that counts as content.
EndsHunk(l) ==
    \E p \in {<<"diff --git ">>, <<"--- ">>, <<"+++ ">>, <<"index ">>,
              <<"new file">>, <<"deleted file">>} :
        StartsWith(l, Line(p))
IsContent(l) == l # <<>> /\ Head(l) \in {" ", "+", "-", "\\"}
RECURSIVE ContentLines(_, _)
ContentLines(block, in_hunk) ==
    IF block = <<>> THEN 0
    ELSE IF HUNK_RE(Head(block)) THEN ContentLines(Tail(block), TRUE)
    ELSE IF in_hunk /\ EndsHunk(Head(block))
    THEN ContentLines(Tail(block), FALSE)
    ELSE IF in_hunk /\ IsContent(Head(block))
    THEN 1 + ContentLines(Tail(block), in_hunk)
    ELSE ContentLines(Tail(block), in_hunk)
\* Lines 129-168 for one block: "" when it passes, else the reason.
BlockFault(block) ==
    IF ~HasHunk(block) /\ MetadataOnly(block) THEN ""
    ELSE IF ~(AnyStarts(block, "--- ") /\ AnyStarts(block, "+++ "))
    THEN "missing file headers"
    ELSE IF ~HasHunk(block) THEN "no hunk headers"
    ELSE IF ContentLines(block, FALSE) = 0 THEN "no diff content"
    ELSE ""
FirstFault(blocks) ==
    IF \A i \in 1..Len(blocks) : BlockFault(blocks[i]) = "" THEN ""
    ELSE BlockFault(blocks[CHOOSE i \in 1..Len(blocks) :
                       /\ BlockFault(blocks[i]) # ""
                       /\ \A j \in 1..(i - 1) : BlockFault(blocks[j]) = ""])
ValidateBlocks(blocks) ==
    IF blocks = <<>>
    THEN [ok |-> FALSE, reason |-> "no 'diff --git' header found"]
    ELSE [ok |-> FirstFault(blocks) = "", reason |-> FirstFault(blocks)]
validate_patch_text(text) ==
    IF StripLines(text) = <<>> THEN [ok |-> FALSE, reason |-> "empty patch"]
    ELSE ValidateBlocks(SplitBlocks(StripLines(text), <<>>))

(***************************************************************************)
(* get_patch (patch_utils.py lines 42-92), statement by statement, on a    *)
(* working tree given by its changes against HEAD.                         *)
(***************************************************************************)
VARIABLES
    gpc,         \* position in get_patch
    tree,        \* the changes of the working tree against HEAD, in order
    staged,      \* the changes the index holds against HEAD
    reset_ran,   \* _unstage has run 'git reset HEAD'
    diff_out,    \* returncode and stdout of git diff --cached HEAD
    gp_result    \* how get_patch ended and the text it returned

pvars == <<gpc, tree, staged, reset_ran, diff_out, gp_result>>

\* Paths, as fragments.
SidecarPath == <<SANITIZE_SIDECAR>>
Change(kind, a, b) ==
    [kind |-> kind, a |-> a, b |-> b, old |-> "v1", new |-> "v2",
     quoted |-> FALSE]

\* Changes to files other than the sidecar.
OrdinaryChanges ==
    {Change("modify", <<"src.py">>, <<"src.py">>),
     [Change("modify", <<"q.sql">>, <<"q.sql">>)
        EXCEPT !.old = "-- only", !.new = "select 1;"],
     Change("add", <<"new.py">>, <<"new.py">>),
     [Change("add", <<"new.py">>, <<"new.py">>) EXCEPT !.new = "++ x"],
     Change("add", <<SANITIZE_SIDECAR, "-notes">>,
            <<SANITIZE_SIDECAR, "-notes">>),
     Change("add_empty", <<"new.py">>, <<"new.py">>),
     Change("add_latin1", <<"notes.txt">>, <<"notes.txt">>),
     Change("delete", <<"src.py">>, <<"src.py">>),
     Change("delete_empty", <<"src.py">>, <<"src.py">>),
     Change("rename", <<"src.py">>, <<"lib.py">>),
     Change("rename_edit", <<"src.py">>, <<"lib.py">>),
     Change("mode", <<"src.py">>, <<"src.py">>),
     Change("binary", <<"b.bin">>, <<"b.bin">>)}

\* Changes to the sidecar: it is new to HEAD once its exclude entry is
\* gone, and changed, deleted or renamed against HEAD once the agent has
\* committed it.
SidecarChanges ==
    {Change("add", SidecarPath, SidecarPath),
     [Change("modify", SidecarPath, SidecarPath) EXCEPT !.old = "{}"],
     Change("delete", SidecarPath, SidecarPath),
     Change("mode", SidecarPath, SidecarPath),
     Change("rename", SidecarPath, <<"lib.py">>),
     Change("rename_edit", SidecarPath, <<"lib.py">>),
     [Change("rename", SidecarPath, <<"caf\\303\\251.json">>)
        EXCEPT !.quoted = TRUE],
     [Change("rename_edit", SidecarPath, <<"caf\\303\\251.json">>)
        EXCEPT !.quoted = TRUE],
     Change("rename", <<"src.py">>, SidecarPath)}

\* The lines git diff prints for one change.  A path with bytes outside
\* ASCII is printed quoted, with its prefix inside the quotes.
ASide(c) == Line(<<"a/">> \o c.a)
BSide(c) ==
    IF c.quoted THEN Line(<<"\"", "b/">> \o c.b \o <<"\"">>)
    ELSE Line(<<"b/">> \o c.b)
BName(c) ==
    IF c.quoted THEN Line(<<"\"">> \o c.b \o <<"\"">>) ELSE Line(c.b)
Header(c) == Line(<<"diff --git ">>) \o ASide(c) \o Line(<<" ">>) \o BSide(c)
IndexLine(from, to, mode) == Line(<<"index ", from, "..", to>> \o mode)
Minus(p) == Line(<<"--- ">>) \o p
Plus(p) == Line(<<"+++ ">>) \o p
RenameLines(c, similarity) ==
    <<Header(c), Line(<<similarity>>),
      Line(<<"rename from ">> \o c.a), Line(<<"rename to ">>) \o BName(c)>>
BlockOf(c) ==
    CASE c.kind = "modify" ->
            <<Header(c), IndexLine("147302c", "ab290eb", <<" ", "100644">>),
              Minus(ASide(c)), Plus(BSide(c)), Line(<<"@@ -1 +1 @@">>),
              Line(<<"-", c.old>>), Line(<<"+", c.new>>)>>
      [] c.kind = "add" ->
            <<Header(c), Line(<<"new file mode ", "100644">>),
              IndexLine("0000000", "ab290eb", <<>>),
              Minus(Line(<<"/dev/null">>)), Plus(BSide(c)),
              Line(<<"@@ -0,0 +1 @@">>), Line(<<"+", c.new>>)>>
      [] c.kind = "add_empty" ->
            <<Header(c), Line(<<"new file mode ", "100644">>),
              IndexLine("0000000", "e69de29", <<>>)>>
      [] c.kind = "delete" ->
            <<Header(c), Line(<<"deleted file mode ", "100644">>),
              IndexLine("147302c", "0000000", <<>>),
              Minus(ASide(c)), Plus(Line(<<"/dev/null">>)),
              Line(<<"@@ -1 +0,0 @@">>), Line(<<"-", c.old>>)>>
      [] c.kind = "delete_empty" ->
            <<Header(c), Line(<<"deleted file mode ", "100644">>),
              IndexLine("e69de29", "0000000", <<>>)>>
      [] c.kind = "rename" -> RenameLines(c, "similarity index 100%")
      [] c.kind = "rename_edit" ->
            RenameLines(c, "similarity index 88%")
            \o <<IndexLine("147302c", "ab290eb", <<" ", "100644">>),
                 Minus(ASide(c)), Plus(BSide(c)),
                 Line(<<"@@ -1,2 +1,3 @@">>), Line(<<" ", c.old>>),
                 Line(<<" ", c.new>>), Line(<<"+", "select 1;">>)>>
      [] c.kind = "mode" ->
            <<Header(c), Line(<<"old mode ", "100644">>),
              Line(<<"new mode ", "100755">>)>>
      [] c.kind = "binary" ->
            <<Header(c), Line(<<"new file mode ", "100644">>),
              IndexLine("0000000", "ab290eb", <<>>),
              Line(<<"Binary files ", "/dev/null", " and ">>) \o BSide(c)
              \o Line(<<" differ">>)>>
      [] OTHER -> <<>>
RECURSIVE DiffText(_)
DiffText(changes) ==
    IF changes = <<>> THEN <<>>
    ELSE BlockOf(Head(changes)) \o DiffText(Tail(changes))

\* The output of git diff holds bytes that are not UTF-8.
NotDecodable(changes) ==
    \E i \in 1..Len(changes) : changes[i].kind = "add_latin1"

Range(s) == {s[i] : i \in 1..Len(s)}
NoResult == [kind |-> "none", text |-> <<>>]
NoOutput == [rc |-> 0, stdout |-> <<>>]

\* The working trees: at most one change of the sidecar, which git lists
\* first, and at most one other; the agent may have staged them.
PInit ==
    /\ gpc = "add"
    /\ \E internal \in SUBSET SidecarChanges,
          ordinary \in SUBSET OrdinaryChanges :
         /\ Cardinality(internal) <= 1
         /\ Cardinality(ordinary) <= 1
         /\ tree = (IF internal = {} THEN <<>>
                    ELSE <<CHOOSE c \in internal : TRUE>>)
                   \o (IF ordinary = {} THEN <<>>
                       ELSE <<CHOOSE c \in ordinary : TRUE>>)
    /\ staged \in {{}, Range(tree)}
    /\ reset_ran = FALSE
    /\ diff_out = NoOutput
    /\ gp_result = NoResult

\* _unstage (lines 50-56): git reset HEAD --quiet; a failure or a timeout of
\* it is swallowed.
Unstage ==
    /\ reset_ran' = TRUE
    /\ \E ok \in BOOLEAN : staged' = IF ok THEN {} ELSE staged
Raise(kind) ==
    /\ gpc' = "exit"
    /\ gp_result' = [kind |-> kind, text |-> <<>>]

\* Lines 60-63: git add -A.  It returns 0, returns another status, raises
\* TimeoutExpired or FileNotFoundError, or is interrupted.
GitAdd ==
    /\ gpc = "add"
    /\ \/ /\ staged' = Range(tree)
          /\ gpc' = "diff"
          /\ UNCHANGED gp_result
       \/ /\ staged' \in {staged, Range(tree)}
          /\ gpc' \in {"add_failed", "except"}
          /\ UNCHANGED gp_result
       \/ /\ staged' \in {staged, Range(tree)}
          /\ Raise("KeyboardInterrupt")
    /\ UNCHANGED <<tree, reset_ran, diff_out>>

\* Lines 64-69: _unstage, then RuntimeError, which the except clause of line
\* 88 does not catch.
AddFailed ==
    /\ gpc = "add_failed"
    /\ Unstage
    /\ Raise("RuntimeError")
    /\ UNCHANGED <<tree, diff_out>>

\* Lines 72-75: git diff --cached HEAD with text=True.  Its output is
\* decoded as UTF-8, so bytes that are not raise UnicodeDecodeError.
GitDiff ==
    /\ gpc = "diff"
    /\ IF NotDecodable(tree)
       THEN Raise("UnicodeDecodeError") /\ UNCHANGED diff_out
       ELSE \/ /\ diff_out' = [rc |-> 0, stdout |-> DiffText(tree)]
               /\ gpc' = "unstage"
               /\ UNCHANGED gp_result
            \/ /\ diff_out' = [rc |-> 1, stdout |-> <<>>]
               /\ gpc' = "unstage"
               /\ UNCHANGED gp_result
            \/ /\ gpc' = "except"
               /\ UNCHANGED <<diff_out, gp_result>>
            \/ Raise("KeyboardInterrupt") /\ UNCHANGED diff_out
    /\ UNCHANGED <<tree, staged, reset_ran>>

\* Line 77: always unstage before checking the result.
UnstageAfterDiff ==
    /\ gpc = "unstage"
    /\ Unstage
    /\ gpc' = "check"
    /\ UNCHANGED <<tree, diff_out, gp_result>>

\* Lines 79-86: RuntimeError on a failed diff, else the text without the
\* blocks of internal files.
Returned(stdout) ==
    [kind |-> "returned",
     text |-> strip_internal_files(IF StripLines(stdout) = <<>> THEN <<>>
                                   ELSE stdout)]
CheckDiff ==
    /\ gpc = "check"
    /\ gpc' = "exit"
    /\ gp_result' = IF diff_out.rc # 0
                    THEN [kind |-> "RuntimeError", text |-> <<>>]
                    ELSE Returned(diff_out.stdout)
    /\ UNCHANGED <<tree, staged, reset_ran, diff_out>>

\* Lines 88-90: TimeoutExpired and FileNotFoundError: _unstage, RuntimeError.
ExceptTimeout ==
    /\ gpc = "except"
    /\ Unstage
    /\ Raise("RuntimeError")
    /\ UNCHANGED <<tree, diff_out>>

PIdle ==
    /\ gpc = "idle"
    /\ tree = <<>>
    /\ staged = {}
    /\ reset_ran = FALSE
    /\ diff_out = NoOutput
    /\ gp_result = NoResult

(***************************************************************************)
(* The permission mode of one ignored file through _backup_ignored_files   *)
(* and _restore_ignored_files (git_helpers.py lines 178-199, 296-315).     *)
(***************************************************************************)
VARIABLES
    mpc,             \* "setup", "agent", "reset", "restored", "setup_raised"
    setup_mode,      \* permission bits of the file when setup ran
    file_mode,       \* permission bits of the file now, -1 when it is gone
    backup_mode,     \* permission bits of its copy below <backup>/ignored
    pre_agent_mode   \* st_mode recorded in pre_agent_modes, -1 when none

mvars == <<mpc, setup_mode, file_mode, backup_mode, pre_agent_mode>>

\* stat constants, and the bit operations the code uses.
S_IFREG == 32768
S_ISUID == 2048
S_ISGID == 1024
S_ISVTX == 512
S_IRUSR == 256
S_IWUSR == 128
S_IRGRP == 32
HasBit(m, bit) == (m \div bit) % 2 = 1
WithBit(m, bit) == IF HasBit(m, bit) THEN m ELSE m + bit
\* stat.S_IMODE and `& 0o0777`
S_IMODE(st_mode) == st_mode % 4096
Low9(st_mode) == st_mode % 512

\* Every permission mode of a regular file.
FileModes ==
    {special + perm : special \in {0, S_ISVTX, S_ISGID, S_ISUID},
                      perm \in 0..511}

MInit ==
    /\ mpc = "setup"
    /\ setup_mode \in FileModes
    /\ file_mode = setup_mode
    /\ backup_mode = -1
    /\ pre_agent_mode = -1

\* Lines 192-198 and _lock_backup_dir: the st_mode is recorded, copy2 copies
\* the file with its mode (it must be readable, unless run as root), and the
\* copy is locked to 0o440.
BackupIgnoredFile ==
    /\ mpc = "setup"
    /\ \/ /\ pre_agent_mode' = S_IFREG + file_mode
          /\ backup_mode' = S_IRUSR + S_IRGRP
          /\ mpc' = "agent"
       \/ /\ ~HasBit(file_mode, S_IRUSR)
          /\ pre_agent_mode' = S_IFREG + file_mode
          /\ mpc' = "setup_raised"
          /\ UNCHANGED backup_mode
    /\ UNCHANGED <<setup_mode, file_mode>>

\* The agent leaves the file alone, changes its mode or removes it.
AgentChmod ==
    /\ mpc = "agent"
    /\ file_mode' \in {file_mode, -1, 0, 420, 511}
    /\ mpc' = "reset"
    /\ UNCHANGED <<setup_mode, backup_mode, pre_agent_mode>>

\* Lines 299-315: whatever is at dst is removed, copy2 brings the copy with
\* the mode of the backup, then chmod to the recorded mode without setuid,
\* setgid and sticky and with user-write, or to 0o640 when none is recorded.
safe_mode(recorded) == WithBit(Low9(recorded), S_IWUSR)
RestoredMode(copied, recorded) ==
    IF recorded # -1 THEN safe_mode(recorded)
    ELSE S_IRUSR + S_IWUSR + S_IRGRP

\* reset_to_baseline (line 667) and restore_repo (line 796) both call
\* _restore_ignored_files with the modes of the sidecar.
ResetRestoresMode ==
    /\ mpc = "reset"
    /\ file_mode' = RestoredMode(backup_mode, pre_agent_mode)
    /\ mpc' = "restore"
    /\ UNCHANGED <<setup_mode, backup_mode, pre_agent_mode>>
RestoreRestoresMode ==
    /\ mpc \in {"reset", "restore"}
    /\ file_mode' = RestoredMode(backup_mode, pre_agent_mode)
    /\ mpc' = "restored"
    /\ backup_mode' = -1
    /\ UNCHANGED <<setup_mode, pre_agent_mode>>

MIdle ==
    /\ mpc = "idle"
    /\ setup_mode = 420
    /\ file_mode = 420
    /\ backup_mode = -1
    /\ pre_agent_mode = -1

(***************************************************************************)
(* send_task and wait_for_assistant_message (opencode_client.py lines      *)
(* 74-96, 114-152, 180-242).  A JSON object is given by what the code      *)
(* looks at: its "role", its "info" and its "parts".                       *)
(***************************************************************************)
VARIABLES
    tpc,        \* "post", "poll", "done"
    polls,      \* GET requests made before the deadline
    response,   \* body of the POST response
    sent,       \* how send_task ended: kind, the message returned, its origin
    waited,     \* how wait_for_assistant_message ended, "none" when not called
    fetched     \* the GET whose list held an assistant message: "none",
                \* "poll" (before the deadline), "final" (after it)

tvars == <<tpc, polls, response, sent, waited, fetched>>

MaxPolls == 2
MaxList == 2

\* role: "absent" or a string; info: "absent", "notdict", or a dict given by
\* its role ("norole" when it has none); parts: "absent", "list", "notlist".
Message(role, info, parts) ==
    [type |-> "dict", role |-> role, info |-> info, parts |-> parts]
NotDict == [type |-> "other", role |-> "absent", info |-> "absent",
            parts |-> "absent"]
Messages ==
    {Message(r, i, p) : r \in {"absent", "assistant", "user"},
                        i \in {"absent", "notdict", "norole", "assistant",
                               "user"},
                        p \in {"absent", "list", "notlist"}}
    \cup {NotDict}
\* The entries of the lists a response is made of.
ListEntries ==
    {Message("user", "absent", "list"), Message("assistant", "absent", "list"),
     Message("absent", "assistant", "list"),
     Message("absent", "assistant", "absent"),
     Message("user", "assistant", "absent"), NotDict}
Lists == UNION {[1..n -> ListEntries] : n \in 0..MaxList}

\* The bodies opencode_request can hand back (lines 64-69): nothing, a text
\* that is blank or not, a number, an object, a list.
Body(kind, value) == [kind |-> kind, value |-> value]
Bodies ==
    {Body("none", <<>>), Body("blank", <<>>), Body("text", <<>>),
     Body("number", <<>>)}
    \cup {Body("dict", <<m>>) : m \in Messages \ {NotDict}}
    \cup {Body("list", l) : l \in Lists}

\* is_assistant_message (lines 74-81)
is_assistant_message(msg) ==
    /\ msg.type = "dict"
    /\ \/ msg.role = "assistant"
       \/ msg.info = "assistant"

\* normalize_message (lines 84-96)
normalize_message(msg) ==
    IF msg.type # "dict" THEN Message("absent", "norole", "list")
    ELSE IF msg.info # "absent" /\ msg.parts # "absent"
    THEN IF msg.parts # "list" THEN [msg EXCEPT !.parts = "list"] ELSE msg
    ELSE Message("absent",
                 IF msg.role # "absent" THEN msg.role ELSE "norole",
                 "list")

\* The last entry of the list that is an assistant message, 0 when none.
LastAssistant(l) ==
    IF \E i \in 1..Len(l) : is_assistant_message(l[i])
    THEN CHOOSE i \in 1..Len(l) :
            /\ is_assistant_message(l[i])
            /\ \A j \in (i + 1)..Len(l) : ~is_assistant_message(l[j])
    ELSE 0

NotSent == [kind |-> "none", msg |-> NotDict, from |-> NotDict]
ReturnNormalized(m) ==
    [kind |-> "returned", msg |-> normalize_message(m), from |-> m]

TInit ==
    /\ tpc = "post"
    /\ polls = 0
    /\ response \in Bodies
    /\ sent = NotSent
    /\ waited = "none"
    /\ fetched = "none"

\* Lines 191-236: the POST and what send_task does with its body.
\* The message to return at once, or NotDict when it goes on to poll.
AnsweredBy(body) ==
    CASE body.kind = "list" /\ LastAssistant(body.value) # 0 ->
            body.value[LastAssistant(body.value)]
      [] body.kind = "dict" /\ is_assistant_message(body.value[1]) ->
            body.value[1]
      [] OTHER -> NotDict
PostTask ==
    /\ tpc = "post"
    /\ IF AnsweredBy(response) # NotDict
       THEN /\ sent' = ReturnNormalized(AnsweredBy(response))
            /\ tpc' = "done"
       ELSE /\ tpc' = "poll"
            /\ UNCHANGED sent
    /\ UNCHANGED <<polls, response, waited, fetched>>

\* Lines 119-137: one GET before the deadline; nothing and a single object
\* are taken as lists, anything else that is no list is skipped.  The server
\* answers every request; the deadline may pass after any number of polls.
AsList(body) ==
    CASE body.kind = "list" -> body.value
      [] body.kind = "dict" -> body.value
      [] OTHER -> <<>>
Poll ==
    /\ tpc = "poll"
    /\ polls < MaxPolls
    /\ polls' = polls + 1
    /\ \E body \in Bodies :
         IF LastAssistant(AsList(body)) # 0
         THEN /\ sent' = ReturnNormalized(
                             AsList(body)[LastAssistant(AsList(body))])
              /\ tpc' = "done"
              /\ waited' = "returned"
              /\ fetched' = "poll"
         ELSE UNCHANGED <<tpc, sent, waited, fetched>>
    /\ UNCHANGED response

\* Lines 139-152 and the except clauses of send_task: the deadline passed,
\* the messages are fetched once more for the text of the TimeoutError, which
\* is raised whatever that list holds and becomes AgentDidNotRunError.
Deadline ==
    /\ tpc = "poll"
    /\ \E body \in Bodies :
         fetched' = IF LastAssistant(AsList(body)) # 0 THEN "final" ELSE "none"
    /\ waited' = "TimeoutError"
    /\ sent' = [kind |-> "AgentDidNotRunError", msg |-> NotDict,
                from |-> NotDict]
    /\ tpc' = "done"
    /\ UNCHANGED <<polls, response>>

TIdle ==
    /\ tpc = "idle"
    /\ polls = 0
    /\ response = Body("none", <<>>)
    /\ sent = NotSent
    /\ waited = "none"
    /\ fetched = "none"

(***************************************************************************)
(* sanitize_prompt (patch_utils.py lines 174-188).  A prompt is a sequence *)
(* of tokens: "La" and "Lb" are the words **Repo and Link:**, "U" a scheme  *)
(* and host that stage 2 looks for followed by "/", "R" the word REDACTED, *)
(* "x" any other text without whitespace or brackets; the rest are single  *)
(* characters.                                                             *)
(***************************************************************************)
VARIABLES
    xpc,          \* number of times sanitize_prompt has been applied
    prompt,       \* the prompt text given
    sanitized     \* the results of the applications, in order

xvars == <<xpc, prompt, sanitized>>

MaxParts == 5

\* The pieces prompts are put together from.
Pieces ==
    {<<"La", " ", "Lb">>, <<"\n">>, <<" ">>, <<"x">>, <<"U", "x">>,
     <<"[", "x", "]", "(", "x", ")">>}
RECURSIVE Concat(_)
Concat(parts) ==
    IF parts = <<>> THEN <<>> ELSE Head(parts) \o Concat(Tail(parts))
Prompts == {Concat(ps) : ps \in UNION {[1..n -> Pieces] : n \in 0..MaxParts}}

\* \s
IsWs(c) == c \in {"\n", " "}
\* The first position from i on that holds no newline (no whitespace,
\* whitespace); Len(t) + 1 when there is none.
RECURSIVE SkipNl(_, _)
SkipNl(t, i) == IF i <= Len(t) /\ t[i] = "\n" THEN SkipNl(t, i + 1) ELSE i
RECURSIVE SkipWs(_, _)
SkipWs(t, i) == IF i <= Len(t) /\ IsWs(t[i]) THEN SkipWs(t, i + 1) ELSE i
RECURSIVE SkipNonWs(_, _)
SkipNonWs(t, i) ==
    IF i <= Len(t) /\ ~IsWs(t[i]) THEN SkipNonWs(t, i + 1) ELSE i

\* .*?\]\( from i: the position of the first "]" on the line that "(" follows,
\* 0 when there is none.
RECURSIVE FindCloseOpen(_, _)
FindCloseOpen(t, i) ==
    IF i >= Len(t) \/ t[i] = "\n" THEN 0
    ELSE IF t[i] = "]" /\ t[i + 1] = "(" THEN i
    ELSE FindCloseOpen(t, i + 1)
\* .*?\) from i: the position of the first ")" on the line, 0 when none.
RECURSIVE FindClose(_, _)
FindClose(t, i) ==
    IF i > Len(t) \/ t[i] = "\n" THEN 0
    ELSE IF t[i] = ")" THEN i
    ELSE FindClose(t, i + 1)

\* Stage 1, line 178: \n*\*\*Repo Link:\*\*\s*\n\[.*?\]\(.*?\)\s*\n*
\* matched at position i: the position after the match, 0 when no match.
\* The whitespace after the label must end in a newline that "[" follows.
LinkEnd(t, close) ==
    IF close = 0 \/ FindClose(t, close + 2) = 0 THEN 0
    ELSE SkipWs(t, FindClose(t, close + 2) + 1)
IsLabel(t, i) ==
    i + 2 <= Len(t) /\ SubSeq(t, i, i + 2) = <<"La", " ", "Lb">>
LinkFrom(t, label, open) ==
    IF open > Len(t) \/ open = label + 3 THEN 0
    ELSE IF t[open - 1] # "\n" \/ t[open] # "[" THEN 0
    ELSE LinkEnd(t, FindCloseOpen(t, open + 1))
LabelAt(t, label) ==
    IF ~IsLabel(t, label) THEN 0
    ELSE LinkFrom(t, label, SkipWs(t, label + 3))
MatchRepoLink(t, i) == LabelAt(t, SkipNl(t, i))

\* re.sub of stage 1: every match, from the left, becomes two newlines.
RECURSIVE SubRepoLink(_, _)
SubRepoLink(t, i) ==
    IF i > Len(t) THEN <<>>
    ELSE IF MatchRepoLink(t, i) # 0
    THEN <<"\n", "\n">> \o SubRepoLink(t, MatchRepoLink(t, i))
    ELSE <<t[i]>> \o SubRepoLink(t, i + 1)

\* Stage 2, lines 183-184: https?://(host)/\S+ becomes [REDACTED].
RECURSIVE SubUrl(_, _)
SubUrl(t, i) ==
    IF i > Len(t) THEN <<>>
    ELSE IF t[i] = "U" /\ SkipNonWs(t, i + 1) > i + 1
    THEN <<"[", "R", "]">> \o SubUrl(t, SkipNonWs(t, i + 1))
    ELSE <<t[i]>> \o SubUrl(t, i + 1)

\* Line 187: \n{3,} becomes two newlines.
RECURSIVE Collapse(_, _)
Collapse(t, i) ==
    IF i > Len(t) THEN <<>>
    ELSE IF SkipNl(t, i) >= i + 3
    THEN <<"\n", "\n">> \o Collapse(t, SkipNl(t, i))
    ELSE <<t[i]>> \o Collapse(t, i + 1)

\* Line 188: str.strip()
RECURSIVE StripPrompt(_)
StripPrompt(t) ==
    IF t # <<>> /\ IsWs(Head(t)) THEN StripPrompt(Tail(t))
    ELSE IF t # <<>> /\ IsWs(t[Len(t)])
    THEN StripPrompt(SubSeq(t, 1, Len(t) - 1))
    ELSE t

sanitize_prompt(t) ==
    StripPrompt(Collapse(SubUrl(SubRepoLink(t, 1), 1), 1))

XInit ==
    /\ xpc = 0
    /\ prompt \in Prompts
    /\ sanitized = <<>>

\* sanitize_prompt applied to the prompt, then to its own result.
Sanitize ==
    /\ xpc < 2
    /\ xpc' = xpc + 1
    /\ sanitized' = Append(sanitized,
                           sanitize_prompt(IF xpc = 0 THEN prompt
                                           ELSE sanitized[xpc]))
    /\ UNCHANGED prompt

XIdle ==
    /\ xpc = -1
    /\ prompt = <<>>
    /\ sanitized = <<>>

(***************************************************************************)
(* Score validation of the patch evaluator (PatchEvaluator's               *)
(* _validate_scores, whose module is not among the sources: this part      *)
(* follows the specification's section "Score validation and clamping").   *)
(* A number is counted in halves, so that h = 5 is the score 2.5; the      *)
(* other values a parsed JSON object can hold are told apart by t.         *)
(***************************************************************************)
VARIABLES
    ypc,             \* "parsed", "validated"
    scores,          \* parsed["scores"], by position in CRITERIA
    overall_score,   \* parsed["overall_score"]
    stored_overall   \* parsed["overall_score"] as the judge gave it

yvars == <<ypc, scores, overall_score, stored_overall>>

CRITERIA ==
    <<"functional_correctness", "completeness_coverage",
      "equivalence_to_ground_truth">>
WEIGHTS == <<9, 7, 4>>

Num(h) == [t |-> "num", h |-> h]
Other(t) == [t |-> t, h |-> 0]
Absent == Other("absent")

\* -1, 0, 0.5, 1, 2.5, 3, 5, 10; a boolean, NaN, a string, no such key.
ScoreValues ==
    {Num(h) : h \in {-2, 0, 1, 2, 5, 6, 10, 20}}
        \cup {Other("bool"), Other("nan"), Other("str"), Absent}

\* -5, 0, 4, 22, 22.5, 50, 57, 100, 150; a boolean, NaN.
OverallValues ==
    {Num(h) : h \in {-10, 0, 8, 44, 45, 100, 114, 200, 300}}
        \cup {Other("bool"), Other("nan")}

\* Present, a number, finite, and not a boolean.
FiniteNumber(v) == v.t = "num"

clamp(lo, hi, h) == IF h < lo THEN lo ELSE IF h > hi THEN hi ELSE h

\* round() of h halves, h >= 0: the nearest integer, a tie to the even one.
round(h) ==
    LET q == h \div 2
    IN  IF h % 2 = 0 THEN q
        ELSE IF q % 2 = 0 THEN q
        ELSE q + 1

\* round(9*A + 7*B + 4*C) of the clamped criteria, clamped to [0, 100].
Computed(s) ==
    clamp(0, 100,
          round(WEIGHTS[1] * clamp(0, 10, s[1].h)
                + WEIGHTS[2] * clamp(0, 10, s[2].h)
                + WEIGHTS[3] * clamp(0, 10, s[3].h)))

\* A numeric overall_score out of range, or one that is not the computed
\* value.
RewriteOutOfRange(stored, computed) ==
    /\ stored.t = "num"
    /\ (stored.h < 0 \/ stored.h > 200)
MustRewrite(stored, computed) ==
    /\ stored.t = "num"
    /\ (stored.h < 0 \/ stored.h > 200 \/ stored.h # 2 * computed)

validate_scores(s, stored) ==
    IF \E i \in 1..3 : ~FiniteNumber(s[i]) THEN stored
    ELSE IF MustRewrite(stored, Computed(s)) THEN Num(2 * Computed(s))
    ELSE stored

YInit ==
    /\ ypc = "parsed"
    /\ scores \in [1..3 -> ScoreValues]
    /\ overall_score \in OverallValues
    /\ stored_overall = overall_score

ValidateScores ==
    /\ ypc = "parsed"
    /\ ypc' = "validated"
    /\ overall_score' = validate_scores(scores, overall_score)
    /\ UNCHANGED <<scores, stored_overall>>

YIdle ==
    /\ ypc = "idle"
    /\ scores = <<>>
    /\ overall_score = Absent
    /\ stored_overall = Absent

(***************************************************************************)
(* The temporary files of the ground-truth patch: the downloaded copy made *)
(* by handler() (command.py lines 83-100, removed at lines 427-428) and    *)
(* the safety copy made by setup_starting_point (git_helpers.py lines      *)
(* 551-558, removed at lines 587-590).  Each statement that can raise      *)
(* either completes or raises.                                             *)
(***************************************************************************)
VARIABLES
    kpc,                \* the statement group to run next
    gt_arg,             \* --gt-patch: "none", "url", "inside" the repository,
                        \* "outside" it, or "missing" (no such file)
    gt_patch_tempfile,  \* handler's record of the downloaded copy, or "None"
    temp_dir,           \* the gt_*.patch files present in the temp directory
    run                 \* where the try body raised, whether a patch was
                        \* produced, restore_failed, the exit status

kvars == <<kpc, gt_arg, gt_patch_tempfile, temp_dir, run>>

GtArgs == {"none", "url", "inside", "outside", "missing"}
Downloaded == "gt_.patch"
SafetyCopy == "gt_safe_.patch"
NotRun == [raised_at |-> "", patch |-> FALSE, restore_failed |-> FALSE,
           exit |-> "running"]

KInit ==
    /\ kpc = "gt_patch"
    /\ gt_arg \in GtArgs
    /\ gt_patch_tempfile = "None"
    /\ temp_dir = {}
    /\ run = NotRun

\* An exception leaves the try body at statement group st: the finally block
\* runs next.
RaiseAt(st) ==
    /\ kpc' = "finally"
    /\ run' = [run EXCEPT !.raised_at = st]

\* command.py lines 83-100: a URL is downloaded into a file made by mkstemp,
\* which is recorded in gt_patch_tempfile after it has been written; a path
\* must name a file.
FetchGtPatch ==
    /\ kpc = "gt_patch"
    /\ CASE gt_arg = "url" ->
              \E outcome \in {"fetch_failed", "write_failed", "written"} :
                 CASE outcome = "fetch_failed" ->
                        /\ RaiseAt("fetch")
                        /\ UNCHANGED <<temp_dir, gt_patch_tempfile>>
                   [] outcome = "write_failed" ->
                        /\ temp_dir' = temp_dir \cup {Downloaded}
                        /\ RaiseAt("write")
                        /\ UNCHANGED gt_patch_tempfile
                   [] OTHER ->
                        /\ temp_dir' = temp_dir \cup {Downloaded}
                        /\ gt_patch_tempfile' = Downloaded
                        /\ kpc' = "before_setup"
                        /\ UNCHANGED run
         [] gt_arg = "missing" ->
              /\ RaiseAt("not_found")
              /\ UNCHANGED <<temp_dir, gt_patch_tempfile>>
         [] OTHER ->
              /\ kpc' = "before_setup"
              /\ UNCHANGED <<temp_dir, gt_patch_tempfile, run>>
    /\ UNCHANGED gt_arg

\* A statement group that creates and removes no temporary file: it
\* completes and goes on to next, or raises.
PlainStep(st, next) ==
    /\ kpc = st
    /\ \E ok \in BOOLEAN :
         IF ok THEN kpc' = next /\ UNCHANGED run ELSE RaiseAt(st)
    /\ UNCHANGED <<gt_arg, gt_patch_tempfile, temp_dir>>

\* command.py lines 102-142: health check, model resolution, pre_setup_ref.
BeforeSetup == PlainStep("before_setup", "checkout")

\* git_helpers.py lines 489-546: validation of the path, original_ref, the
\* checkout of the branch.
SetupCheckout == PlainStep("checkout", "safety_copy")

\* git_helpers.py lines 549-558: a patch inside the repository is copied to
\* a file made by mkstemp before reset and clean can destroy it.
CopyPatchOut ==
    /\ kpc = "safety_copy"
    /\ IF gt_arg = "inside"
       THEN /\ temp_dir' = temp_dir \cup {SafetyCopy}
            /\ \E ok \in BOOLEAN :
                 IF ok THEN kpc' = "reset" /\ UNCHANGED run
                 ELSE RaiseAt("safety_copy")
       ELSE /\ kpc' = "reset"
            /\ UNCHANGED <<temp_dir, run>>
    /\ UNCHANGED <<gt_arg, gt_patch_tempfile>>

\* git_helpers.py lines 564-566: git reset --hard HEAD and git clean -fd.
ResetAndClean == PlainStep("reset", "apply")

\* git_helpers.py lines 568-590: without a patch setup goes on to the
\* sanitizer; with one, git apply --reverse runs inside try/finally and the
\* finally clause removes the safety copy.
ReverseApply ==
    /\ kpc = "apply"
    /\ IF gt_arg = "none"
       THEN /\ kpc' = "commit"
            /\ UNCHANGED <<temp_dir, run>>
       ELSE /\ temp_dir' = temp_dir \ {SafetyCopy}
            /\ \E ok \in BOOLEAN :
                 IF ok THEN kpc' = "commit" /\ UNCHANGED run
                 ELSE RaiseAt("apply")
    /\ UNCHANGED <<gt_arg, gt_patch_tempfile>>

\* git_helpers.py lines 592-617: the baseline commit and the sanitizer.
CommitAndSanitize == PlainStep("commit", "attempts")

\* command.py lines 164-363: the retry loop and the output files; it ends
\* with or without a patch, or by an exception.
RunAttempts ==
    /\ kpc = "attempts"
    /\ \E outcome \in {"patch", "no_patch", "raised"} :
         /\ kpc' = "finally"
         /\ run' = [run EXCEPT !.patch = (outcome = "patch"),
                               !.raised_at = IF outcome = "raised"
                                             THEN "attempts" ELSE ""]
    /\ UNCHANGED <<gt_arg, gt_patch_tempfile, temp_dir>>

\* The try body got as far as the first destructive git operation.
Mutated == run.raised_at \notin {"fetch", "write", "not_found", "before_setup"}

\* command.py lines 365-428: the restore or the partial cleanup, whose
\* failure is caught and recorded, then the removal of the file recorded in
\* gt_patch_tempfile.
FinallyBlock ==
    /\ kpc = "finally"
    /\ \E failed \in (IF Mutated THEN BOOLEAN ELSE {FALSE}) :
         run' = [run EXCEPT !.restore_failed = failed]
    /\ temp_dir' = IF gt_patch_tempfile # "None"
                   THEN temp_dir \ {gt_patch_tempfile} ELSE temp_dir
    /\ kpc' = "exit"
    /\ UNCHANGED <<gt_arg, gt_patch_tempfile>>

\* command.py lines 436-441, or the exception of the try body leaving
\* handler().
ExitRun ==
    /\ kpc = "exit"
    /\ run' = [run EXCEPT !.exit =
                 IF run.raised_at # "" THEN "raised"
                 ELSE IF run.restore_failed THEN "2"
                 ELSE IF ~run.patch THEN "1" ELSE "0"]
    /\ kpc' = "ended"
    /\ UNCHANGED <<gt_arg, gt_patch_tempfile, temp_dir>>

KIdle ==
    /\ kpc = "idle"
    /\ gt_arg = "none"
    /\ gt_patch_tempfile = "None"
    /\ temp_dir = {}
    /\ run = NotRun

(***************************************************************************)
(* Model resolution (model_resolver.py): resolve_model (lines 226-278)     *)
(* reads OPENCODE_MODEL and the configuration file, choose_server_model    *)
(* (lines 121-176) resolves the result against the catalog of the server.  *)
(* The server has one provider "p"; its model "a" has the display name     *)
(* "A", its model "b" has none.  "q" is a provider the server lacks.       *)
(***************************************************************************)
VARIABLES
    npc,          \* "resolve", "choose", "done", "raised"
    model_env,    \* OPENCODE_MODEL: unset, invalid, or the model it names
    config_file,  \* the configuration file: its kind, model and model name
    catalog,      \* what GET /config/providers yields
    resolved      \* the values returned by the two functions

nvars == <<npc, model_env, config_file, catalog, resolved>>

ModelSpec(p, m) == [providerID |-> p, modelID |-> m]
NoModel == ModelSpec("", "")
ModelSpecs == {ModelSpec(p, m) : p \in {"p", "q"}, m \in {"a", "A", "b"}}

\* The configuration file: absent, not readable or not JSON, not UTF-8, JSON
\* that is no object, an object whose "agent" is no object, an object with
\* a "model" string, an object with a first custom provider and model (with
\* or without a name), an empty object.
Config(kind, model, name) == [kind |-> kind, model |-> model, name |-> name]
ConfigFiles ==
    {Config(k, NoModel, "") :
        k \in {"absent", "unreadable", "not_utf8", "not_object",
               "agent_not_object", "empty"}}
    \cup {Config("model", m, "") :
            m \in {ModelSpec("p", "a"), ModelSpec("p", "A"),
                   ModelSpec("q", "b")}}
    \cup {Config("provider", ModelSpec("p", "x"), n) : n \in {"", "A"}}

\* The catalog: the request raised, or the models of provider "p" and the
\* default model the server names ("" when it names none).
Unreachable == [fetched |-> FALSE, models |-> {}, default |-> ""]
Catalogs ==
    {Unreachable}
    \cup {[fetched |-> TRUE, models |-> ms, default |-> dm] :
            ms \in SUBSET {"a", "b"}, dm \in {"", "a", "b"}}

NotResolved == [model |-> NoModel, raised |-> "", name |-> "",
                selected |-> NoModel, provider_label |-> "",
                model_display |-> "", warning |-> FALSE]

\* OPENCODE_MODEL: unset, a text parse_model_spec rejects, or a model.
Env(kind, model) == [kind |-> kind, model |-> model]
ModelEnvs ==
    {Env("unset", NoModel), Env("invalid", NoModel),
     Env("model", ModelSpec("p", "b"))}

NInit ==
    /\ npc = "resolve"
    /\ model_env \in ModelEnvs
    /\ config_file \in ConfigFiles
    /\ catalog \in Catalogs
    /\ resolved = NotResolved

\* resolve_model (lines 226-278): the model and its name, or the exception
\* that leaves it.
resolve_model(env, cfg) ==
    IF env.kind = "model"
    THEN [NotResolved EXCEPT !.model = env.model]
    ELSE CASE cfg.kind \in {"absent", "unreadable", "empty"} -> NotResolved
           [] cfg.kind = "not_utf8" ->
                [NotResolved EXCEPT !.raised = "UnicodeDecodeError"]
           [] cfg.kind \in {"not_object", "agent_not_object"} ->
                [NotResolved EXCEPT !.raised = "AttributeError"]
           [] cfg.kind = "model" -> [NotResolved EXCEPT !.model = cfg.model]
           [] OTHER ->
                [NotResolved EXCEPT !.model = cfg.model, !.name = cfg.name]

\* The canonical id an id or a display name stands for (lines 54-68).
Canonical(id) == IF id = "A" THEN "a" ELSE id
Display(id) == IF id = "a" THEN "A" ELSE id

\* resolve_in_catalog (lines 129-151): the canonical model, NoModel when
\* there is none.
resolve_in_catalog(cat, model_spec, preferred) ==
    IF model_spec = NoModel \/ model_spec.providerID # "p" THEN NoModel
    ELSE IF Canonical(model_spec.modelID) \in cat.models
    THEN ModelSpec("p", Canonical(model_spec.modelID))
    ELSE IF preferred # "" /\ Canonical(preferred) \in cat.models
    THEN ModelSpec("p", Canonical(preferred))
    ELSE NoModel

\* What choose_server_model answers when the request for the catalog raised.
KeepRequested(r) ==
    [r EXCEPT !.selected = r.model, !.model_display = r.name]

\* choose_server_model (lines 121-176)
choose_server_model(cat, r) ==
    LET found == resolve_in_catalog(cat, r.model, r.name)
        dflt == resolve_in_catalog(cat,
                    IF cat.default = "" THEN NoModel
                    ELSE ModelSpec("p", cat.default), "")
        labelled(x) == IF dflt # NoModel
                       THEN [x EXCEPT !.provider_label = "p",
                                      !.model_display = Display(dflt.modelID)]
                       ELSE x
    IN  IF ~cat.fetched THEN KeepRequested(r)
        ELSE IF r.model # NoModel
        THEN IF found # NoModel
             THEN [r EXCEPT !.selected = found, !.provider_label = "p",
                            !.model_display = Display(found.modelID)]
             ELSE labelled([r EXCEPT !.warning = TRUE])
        ELSE labelled(r)

\* command.py line 117
ResolveModel ==
    /\ npc = "resolve"
    /\ resolved' = resolve_model(model_env, config_file)
    /\ npc' = IF resolved'.raised # "" THEN "raised" ELSE "choose"
    /\ UNCHANGED <<model_env, config_file, catalog>>

\* command.py lines 119-123
ChooseServerModel ==
    /\ npc = "choose"
    /\ resolved' = choose_server_model(catalog, resolved)
    /\ npc' = "done"
    /\ UNCHANGED <<model_env, config_file, catalog>>

NIdle ==
    /\ npc = "idle"
    /\ model_env = Env("unset", NoModel)
    /\ config_file = Config("absent", NoModel, "")
    /\ catalog = Unreachable
    /\ resolved = NotResolved

(***************************************************************************)
(* The heartbeat of send_task (opencode_client.py): _ProgressTimer (lines  *)
(* 28-52) and the with statement of send_task (lines 188-242).  The main   *)
(* thread and the timer thread take their steps in any order.              *)
(***************************************************************************)
VARIABLES
    send_pc,     \* send_task: "call", "post", "poll", "exit", "join", "exited"
    exit_by,     \* how the body of send_task ended, "" while it runs
    stop_set,    \* the Event self._stop
    thread,      \* "unstarted", "waiting", "printing", "ended"
    beats,       \* lines the thread has printed
    late_beats,  \* lines it printed after the stop signal was set
    beat_after_exit  \* it printed after send_task had returned or raised

bvars == <<send_pc, exit_by, stop_set, thread, beats, late_beats,
           beat_after_exit>>

MaxBeats == 2

BInit ==
    /\ send_pc = "call"
    /\ exit_by = ""
    /\ stop_set = FALSE
    /\ thread = "unstarted"
    /\ beats = 0
    /\ late_beats = 0
    /\ beat_after_exit = FALSE

\* Lines 182-191 and __enter__ (41-44): the body is built, model_desc is
\* formatted, the thread is started; each can raise, and then no thread
\* runs and __exit__ is not called.
EnterTimer ==
    /\ send_pc = "call"
    /\ \E ok \in BOOLEAN :
         IF ok
         THEN /\ thread' = "waiting"
              /\ send_pc' = "post"
              /\ UNCHANGED exit_by
         ELSE /\ send_pc' = "exited"
              /\ exit_by' = "exception"
              /\ UNCHANGED thread
    /\ UNCHANGED <<stop_set, beats, late_beats, beat_after_exit>>

\* Lines 192-236: the POST returns an assistant message, leads to polling,
\* or raises.
PostInWith ==
    /\ send_pc = "post"
    /\ \E outcome \in {"return", "poll", "exception"} :
         IF outcome = "poll"
         THEN send_pc' = "poll" /\ UNCHANGED exit_by
         ELSE send_pc' = "exit" /\ exit_by' = outcome
    /\ UNCHANGED <<stop_set, thread, beats, late_beats, beat_after_exit>>

\* Lines 199-242: polling returns a message, ends with AgentDidNotRunError,
\* or a request raises.
PollInWith ==
    /\ send_pc = "poll"
    /\ \E outcome \in {"return", "AgentDidNotRunError", "exception"} :
         exit_by' = outcome
    /\ send_pc' = "exit"
    /\ UNCHANGED <<stop_set, thread, beats, late_beats, beat_after_exit>>

\* The exits of the with block on which __exit__ sets the stop signal.
StopOnReturnOnly(how) == how = "return"
StopOn(how) == how \in {"return", "AgentDidNotRunError", "exception"}

\* __exit__, line 47: self._stop.set()
SetStop ==
    /\ send_pc = "exit"
    /\ stop_set' = StopOn(exit_by)
    /\ send_pc' = "join"
    /\ UNCHANGED <<exit_by, thread, beats, late_beats, beat_after_exit>>

\* __exit__, line 48: join(timeout=2) returns when the thread has ended or
\* when two seconds have passed; send_task then returns or raises.
JoinTimer ==
    /\ send_pc = "join"
    /\ send_pc' = "exited"
    /\ UNCHANGED <<exit_by, stop_set, thread, beats, late_beats,
                   beat_after_exit>>

\* _run, line 38: wait(interval) returns False after the interval when the
\* signal is not set.
WaitTimesOut ==
    /\ thread = "waiting"
    /\ ~stop_set
    /\ beats < MaxBeats
    /\ thread' = "printing"
    /\ UNCHANGED <<send_pc, exit_by, stop_set, beats, late_beats,
                   beat_after_exit>>

\* _run, line 38: wait(interval) returns True once the signal is set and
\* the loop ends.
WaitSeesStop ==
    /\ thread = "waiting"
    /\ stop_set
    /\ thread' = "ended"
    /\ UNCHANGED <<send_pc, exit_by, stop_set, beats, late_beats,
                   beat_after_exit>>

\* _run, line 39: the line is printed, the loop goes back to wait.
PrintBeat ==
    /\ thread = "printing"
    /\ beats' = beats + 1
    /\ late_beats' = IF stop_set THEN late_beats + 1 ELSE late_beats
    /\ beat_after_exit' = (beat_after_exit \/ send_pc = "exited")
    /\ thread' = "waiting"
    /\ UNCHANGED <<send_pc, exit_by, stop_set>>

BIdle ==
    /\ send_pc = "idle"
    /\ exit_by = ""
    /\ stop_set = FALSE
    /\ thread = "unstarted"
    /\ beats = 0
    /\ late_beats = 0
    /\ beat_after_exit = FALSE

ovars == <<svars, cvars, pvars, mvars, tvars, xvars, yvars, kvars, nvars, bvars>>
vars == <<hvars, rvars, ovars>>

SIdle ==
    /\ spc = "idle"
    /\ git_entry = "original"
    /\ backup_entry = "none"
    /\ git_kind = "dir"
    /\ has_branch_head = FALSE
    /\ sidecar_data = "unread"
    /\ restore_done = {}
OIdle == SIdle /\ CIdle /\ PIdle /\ MIdle /\ TIdle /\ XIdle /\ YIdle /\ KIdle /\ NIdle /\ BIdle

(***************************************************************************)
(* Specifications.                                                         *)
(***************************************************************************)
RIdle == RInitWith(StartWorld("main", TRUE, "clean"), NoArgs)

Init == HInit /\ RIdle /\ OIdle
Next ==
    \/ (ValidateArgs /\ UNCHANGED <<rvars, ovars>>)
    \/ (PreSetup /\ UNCHANGED <<rvars, ovars>>)
    \/ (SetupStep /\ UNCHANGED <<rvars, ovars>>)
    \/ (AttemptBegin /\ UNCHANGED <<rvars, ovars>>)
    \/ (ResetStep /\ UNCHANGED <<rvars, ovars>>)
    \/ (CreateSession /\ UNCHANGED <<rvars, ovars>>)
    \/ (SendTask /\ UNCHANGED <<rvars, ovars>>)
    \/ (ExtractPatch /\ UNCHANGED <<rvars, ovars>>)
    \/ (RecordAttempt /\ UNCHANGED <<rvars, ovars>>)
    \/ (CollectTrajectory /\ UNCHANGED <<rvars, ovars>>)
    \/ (Decide /\ UNCHANGED <<rvars, ovars>>)
    \/ (WritePatch /\ UNCHANGED <<rvars, ovars>>)
    \/ (SaveTrajectory /\ UNCHANGED <<rvars, ovars>>)
    \/ (Finally /\ UNCHANGED <<rvars, ovars>>)
    \/ (FinalCleanup /\ UNCHANGED <<rvars, ovars>>)
    \/ (Exit /\ UNCHANGED <<rvars, ovars>>)
Spec == Init /\ [][Next]_vars

\* The lifecycle over every starting repository and argument combination,
\* with an agent that works on tracked and untracked files.
InitRepo == HInit /\ RInit /\ OIdle
NextRepo ==
    \/ (Setup /\ UNCHANGED <<hvars, ovars>>)
    \/ (ResetToBaseline /\ UNCHANGED <<hvars, ovars>>)
    \/ (RestoreRepo /\ UNCHANGED <<hvars, ovars>>)
    \/ (AgentEditTracked /\ UNCHANGED <<hvars, ovars>>)
    \/ (AgentCreateFile /\ UNCHANGED <<hvars, ovars>>)
    \/ (AgentCommit /\ UNCHANGED <<hvars, ovars>>)
SpecRepo == InitRepo /\ [][NextRepo]_vars

\* The sanitized lifecycle with an agent that works on the ignored files,
\* plants links and tampers with the sidecar and the backup.
InitIgnored == HInit /\ RInitIgnored /\ OIdle
NextIgnored ==
    \/ (Setup /\ UNCHANGED <<hvars, ovars>>)
    \/ (ResetToBaseline /\ UNCHANGED <<hvars, ovars>>)
    \/ (RestoreRepo /\ UNCHANGED <<hvars, ovars>>)
    \/ (AgentChangeIgnored /\ UNCHANGED <<hvars, ovars>>)
    \/ (AgentReplaceParent /\ UNCHANGED <<hvars, ovars>>)
    \/ (AgentTamperSidecar /\ UNCHANGED <<hvars, ovars>>)
    \/ (AgentPlantPayload /\ UNCHANGED <<hvars, ovars>>)
SpecIgnored == InitIgnored /\ [][NextIgnored]_vars

\* The sanitized lifecycle with an agent that works on the ignored files and
\* on the three places a sidecar is read from.
InitSidecar == HInit /\ RInitIgnored /\ OIdle
NextSidecar ==
    \/ (Setup /\ UNCHANGED <<hvars, ovars>>)
    \/ (ResetToBaseline /\ UNCHANGED <<hvars, ovars>>)
    \/ (RestoreRepo /\ UNCHANGED <<hvars, ovars>>)
    \/ (AgentChangeIgnored /\ UNCHANGED <<hvars, ovars>>)
    \/ (AgentTamperSidecar /\ UNCHANGED <<hvars, ovars>>)
    \/ (AgentRetargetHint /\ UNCHANGED <<hvars, ovars>>)
    \/ (AgentRewriteInRepoSidecar /\ UNCHANGED <<hvars, ovars>>)
    \/ (AgentRemoveDurableSidecar /\ UNCHANGED <<hvars, ovars>>)
    \/ (AgentInitNestedRepo /\ UNCHANGED <<hvars, ovars>>)
SpecSidecar == InitSidecar /\ [][NextSidecar]_vars

\* The sanitized lifecycle across retries, with an agent that edits, creates
\* untracked and ignored files, stages and commits.
InitRetry == HInit /\ RInitRetry /\ OIdle
NextRetry ==
    \/ (Setup /\ UNCHANGED <<hvars, ovars>>)
    \/ (ResetToBaseline /\ UNCHANGED <<hvars, ovars>>)
    \/ (RestoreRepo /\ UNCHANGED <<hvars, ovars>>)
    \/ (AgentEditTracked /\ UNCHANGED <<hvars, ovars>>)
    \/ (AgentCreateFile /\ UNCHANGED <<hvars, ovars>>)
    \/ (AgentStage /\ UNCHANGED <<hvars, ovars>>)
    \/ (AgentCommit /\ UNCHANGED <<hvars, ovars>>)
    \/ (AgentCreateIgnored /\ UNCHANGED <<hvars, ovars>>)
    \/ (ExtractAgentPatch /\ UNCHANGED <<hvars, ovars>>)
SpecRetry == InitRetry /\ [][NextRetry]_vars

\* The lifecycle without sanitization, also from a repository that carries
\* the baseline commit of an earlier run.
InitPlain == HInit /\ RInitPlain /\ OIdle
NextPlain ==
    \/ (Setup /\ UNCHANGED <<hvars, ovars>>)
    \/ (ResetToBaseline /\ UNCHANGED <<hvars, ovars>>)
    \/ (RestoreRepo /\ UNCHANGED <<hvars, ovars>>)
    \/ (AgentEditTracked /\ UNCHANGED <<hvars, ovars>>)
    \/ (AgentCommit /\ UNCHANGED <<hvars, ovars>>)
SpecPlain == InitPlain /\ [][NextPlain]_vars

\* Sanitization and the sanitized restore, statement by statement.
InitSanitize == HInit /\ RIdle /\ SInit /\ CIdle /\ PIdle /\ MIdle /\ TIdle /\ XIdle /\ YIdle /\ KIdle /\ NIdle /\ BIdle
NextSanitize ==
    \/ (BackupGit /\ UNCHANGED <<hvars, rvars, cvars, pvars, mvars, tvars, xvars, yvars, kvars, nvars, bvars>>)
    \/ (RemoveOriginal /\ UNCHANGED <<hvars, rvars, cvars, pvars, mvars, tvars, xvars, yvars, kvars, nvars, bvars>>)
    \/ (ReInit /\ UNCHANGED <<hvars, rvars, cvars, pvars, mvars, tvars, xvars, yvars, kvars, nvars, bvars>>)
    \/ (ClearPartialInit /\ UNCHANGED <<hvars, rvars, cvars, pvars, mvars, tvars, xvars, yvars, kvars, nvars, bvars>>)
    \/ (CopyBackupBack /\ UNCHANGED <<hvars, rvars, cvars, pvars, mvars, tvars, xvars, yvars, kvars, nvars, bvars>>)
    \/ (DropBackup /\ UNCHANGED <<hvars, rvars, cvars, pvars, mvars, tvars, xvars, yvars, kvars, nvars, bvars>>)
    \/ (AgentOnGitEntry /\ UNCHANGED <<hvars, rvars, cvars, pvars, mvars, tvars, xvars, yvars, kvars, nvars, bvars>>)
    \/ (RestoreReadsSidecar /\ UNCHANGED <<hvars, rvars, cvars, pvars, mvars, tvars, xvars, yvars, kvars, nvars, bvars>>)
    \/ (RestoreFindsBackup /\ UNCHANGED <<hvars, rvars, cvars, pvars, mvars, tvars, xvars, yvars, kvars, nvars, bvars>>)
    \/ (RestoreRemovesFresh /\ UNCHANGED <<hvars, rvars, cvars, pvars, mvars, tvars, xvars, yvars, kvars, nvars, bvars>>)
    \/ (RestoreCopiesBack /\ UNCHANGED <<hvars, rvars, cvars, pvars, mvars, tvars, xvars, yvars, kvars, nvars, bvars>>)
    \/ (RestoreResets /\ UNCHANGED <<hvars, rvars, cvars, pvars, mvars, tvars, xvars, yvars, kvars, nvars, bvars>>)
    \/ (RestoreIgnored /\ UNCHANGED <<hvars, rvars, cvars, pvars, mvars, tvars, xvars, yvars, kvars, nvars, bvars>>)
    \/ (RestoreDropsBackup /\ UNCHANGED <<hvars, rvars, cvars, pvars, mvars, tvars, xvars, yvars, kvars, nvars, bvars>>)
    \/ (RestoreSwitchesBack /\ UNCHANGED <<hvars, rvars, cvars, pvars, mvars, tvars, xvars, yvars, kvars, nvars, bvars>>)
SpecSanitize == InitSanitize /\ [][NextSanitize]_vars

\* The cleanup after a setup that did not complete.
InitCleanup == HInit /\ CInit /\ SIdle /\ PIdle /\ MIdle /\ TIdle /\ XIdle /\ YIdle /\ KIdle /\ NIdle /\ BIdle
NextCleanup ==
    \/ (CleanupRecover /\ UNCHANGED <<hvars, svars, pvars, mvars, tvars, xvars, yvars, kvars, nvars, bvars>>)
    \/ (CleanupRemoveSidecar /\ UNCHANGED <<hvars, svars, pvars, mvars, tvars, xvars, yvars, kvars, nvars, bvars>>)
    \/ (CleanupReset /\ UNCHANGED <<hvars, svars, pvars, mvars, tvars, xvars, yvars, kvars, nvars, bvars>>)
    \/ (CleanupClean /\ UNCHANGED <<hvars, svars, pvars, mvars, tvars, xvars, yvars, kvars, nvars, bvars>>)
    \/ (CleanupDropBaseline /\ UNCHANGED <<hvars, svars, pvars, mvars, tvars, xvars, yvars, kvars, nvars, bvars>>)
    \/ (CleanupSwitchBack /\ UNCHANGED <<hvars, svars, pvars, mvars, tvars, xvars, yvars, kvars, nvars, bvars>>)
SpecCleanup == InitCleanup /\ [][NextCleanup]_vars

\* get_patch on every working tree.
InitPatch == HInit /\ RIdle /\ SIdle /\ CIdle /\ PInit /\ MIdle /\ TIdle /\ XIdle /\ YIdle /\ KIdle /\ NIdle /\ BIdle
NextPatch ==
    \/ (GitAdd /\ UNCHANGED <<hvars, rvars, svars, cvars, mvars, tvars, xvars, yvars, kvars, nvars, bvars>>)
    \/ (AddFailed /\ UNCHANGED <<hvars, rvars, svars, cvars, mvars, tvars, xvars, yvars, kvars, nvars, bvars>>)
    \/ (GitDiff /\ UNCHANGED <<hvars, rvars, svars, cvars, mvars, tvars, xvars, yvars, kvars, nvars, bvars>>)
    \/ (UnstageAfterDiff /\ UNCHANGED <<hvars, rvars, svars, cvars, mvars, tvars, xvars, yvars, kvars, nvars, bvars>>)
    \/ (CheckDiff /\ UNCHANGED <<hvars, rvars, svars, cvars, mvars, tvars, xvars, yvars, kvars, nvars, bvars>>)
    \/ (ExceptTimeout /\ UNCHANGED <<hvars, rvars, svars, cvars, mvars, tvars, xvars, yvars, kvars, nvars, bvars>>)
SpecPatch == InitPatch /\ [][NextPatch]_vars

\* The mode of an ignored file from setup to restore.
InitModes == HInit /\ RIdle /\ SIdle /\ CIdle /\ PIdle /\ MInit /\ TIdle /\ XIdle /\ YIdle /\ KIdle /\ NIdle /\ BIdle
NextModes ==
    \/ (BackupIgnoredFile /\ UNCHANGED <<hvars, rvars, svars, cvars, pvars, tvars, xvars, yvars, kvars, nvars, bvars>>)
    \/ (AgentChmod /\ UNCHANGED <<hvars, rvars, svars, cvars, pvars, tvars, xvars, yvars, kvars, nvars, bvars>>)
    \/ (ResetRestoresMode /\ UNCHANGED <<hvars, rvars, svars, cvars, pvars, tvars, xvars, yvars, kvars, nvars, bvars>>)
    \/ (RestoreRestoresMode /\ UNCHANGED <<hvars, rvars, svars, cvars, pvars, tvars, xvars, yvars, kvars, nvars, bvars>>)
SpecModes == InitModes /\ [][NextModes]_vars

\* send_task on every shape of the POST response.
InitSend == HInit /\ RIdle /\ SIdle /\ CIdle /\ PIdle /\ MIdle /\ TInit /\ XIdle /\ YIdle /\ KIdle /\ NIdle /\ BIdle
NextSend ==
    \/ (PostTask /\ UNCHANGED <<hvars, rvars, svars, cvars, pvars, mvars, xvars, yvars, kvars, nvars, bvars>>)
    \/ (Poll /\ UNCHANGED <<hvars, rvars, svars, cvars, pvars, mvars, xvars, yvars, kvars, nvars, bvars>>)
    \/ (Deadline /\ UNCHANGED <<hvars, rvars, svars, cvars, pvars, mvars, xvars, yvars, kvars, nvars, bvars>>)
SpecSend == InitSend /\ [][NextSend]_vars

\* sanitize_prompt applied twice to every prompt.
InitPrompt == HInit /\ RIdle /\ SIdle /\ CIdle /\ PIdle /\ MIdle /\ TIdle /\ XInit /\ YIdle /\ KIdle /\ NIdle /\ BIdle
NextPrompt ==
    Sanitize /\ UNCHANGED <<hvars, rvars, svars, cvars, pvars, mvars, tvars, yvars, kvars, nvars, bvars>>
SpecPrompt == InitPrompt /\ [][NextPrompt]_vars

\* Score validation of the patch evaluator.
InitScore == HInit /\ RIdle /\ SIdle /\ CIdle /\ PIdle /\ MIdle /\ TIdle /\ XIdle /\ YInit /\ KIdle /\ NIdle /\ BIdle
NextScore ==
    ValidateScores /\ UNCHANGED <<hvars, rvars, svars, cvars, pvars, mvars, tvars, xvars, kvars, nvars, bvars>>
SpecScore == InitScore /\ [][NextScore]_vars

\* The temporary files of the ground-truth patch over a run of handler().
InitTempFiles == HInit /\ RIdle /\ SIdle /\ CIdle /\ PIdle /\ MIdle /\ TIdle /\ XIdle /\ YIdle /\ KInit /\ NIdle /\ BIdle
NextTempFiles ==
    \/ (FetchGtPatch /\ UNCHANGED <<hvars, rvars, svars, cvars, pvars, mvars, tvars, xvars, yvars, nvars, bvars>>)
    \/ (BeforeSetup /\ UNCHANGED <<hvars, rvars, svars, cvars, pvars, mvars, tvars, xvars, yvars, nvars, bvars>>)
    \/ (SetupCheckout /\ UNCHANGED <<hvars, rvars, svars, cvars, pvars, mvars, tvars, xvars, yvars, nvars, bvars>>)
    \/ (CopyPatchOut /\ UNCHANGED <<hvars, rvars, svars, cvars, pvars, mvars, tvars, xvars, yvars, nvars, bvars>>)
    \/ (ResetAndClean /\ UNCHANGED <<hvars, rvars, svars, cvars, pvars, mvars, tvars, xvars, yvars, nvars, bvars>>)
    \/ (ReverseApply /\ UNCHANGED <<hvars, rvars, svars, cvars, pvars, mvars, tvars, xvars, yvars, nvars, bvars>>)
    \/ (CommitAndSanitize /\ UNCHANGED <<hvars, rvars, svars, cvars, pvars, mvars, tvars, xvars, yvars, nvars, bvars>>)
    \/ (RunAttempts /\ UNCHANGED <<hvars, rvars, svars, cvars, pvars, mvars, tvars, xvars, yvars, nvars, bvars>>)
    \/ (FinallyBlock /\ UNCHANGED <<hvars, rvars, svars, cvars, pvars, mvars, tvars, xvars, yvars, nvars, bvars>>)
    \/ (ExitRun /\ UNCHANGED <<hvars, rvars, svars, cvars, pvars, mvars, tvars, xvars, yvars, nvars, bvars>>)
SpecTempFiles == InitTempFiles /\ [][NextTempFiles]_vars

\* Model resolution for every configuration and every catalog.
InitModel == HInit /\ RIdle /\ SIdle /\ CIdle /\ PIdle /\ MIdle /\ TIdle /\ XIdle /\ YIdle /\ KIdle /\ NInit /\ BIdle
NextModel ==
    \/ (ResolveModel /\ UNCHANGED <<hvars, rvars, svars, cvars, pvars, mvars, tvars, xvars, yvars, kvars, bvars>>)
    \/ (ChooseServerModel /\ UNCHANGED <<hvars, rvars, svars, cvars, pvars, mvars, tvars, xvars, yvars, kvars, bvars>>)
SpecModel == InitModel /\ [][NextModel]_vars

\* send_task and its heartbeat thread, interleaved.
InitHeartbeat == HInit /\ RIdle /\ SIdle /\ CIdle /\ PIdle /\ MIdle /\ TIdle /\ XIdle /\ YIdle /\ KIdle /\ NIdle /\ BInit
NextHeartbeat ==
    \/ (EnterTimer /\ UNCHANGED <<hvars, rvars, svars, cvars, pvars, mvars, tvars, xvars, yvars, kvars, nvars>>)
    \/ (PostInWith /\ UNCHANGED <<hvars, rvars, svars, cvars, pvars, mvars, tvars, xvars, yvars, kvars, nvars>>)
    \/ (PollInWith /\ UNCHANGED <<hvars, rvars, svars, cvars, pvars, mvars, tvars, xvars, yvars, kvars, nvars>>)
    \/ (SetStop /\ UNCHANGED <<hvars, rvars, svars, cvars, pvars, mvars, tvars, xvars, yvars, kvars, nvars>>)
    \/ (JoinTimer /\ UNCHANGED <<hvars, rvars, svars, cvars, pvars, mvars, tvars, xvars, yvars, kvars, nvars>>)
    \/ (WaitTimesOut /\ UNCHANGED <<hvars, rvars, svars, cvars, pvars, mvars, tvars, xvars, yvars, kvars, nvars>>)
    \/ (WaitSeesStop /\ UNCHANGED <<hvars, rvars, svars, cvars, pvars, mvars, tvars, xvars, yvars, kvars, nvars>>)
    \/ (PrintBeat /\ UNCHANGED <<hvars, rvars, svars, cvars, pvars, mvars, tvars, xvars, yvars, kvars, nvars>>)
SpecHeartbeat == InitHeartbeat /\ [][NextHeartbeat]_vars

\* The operating system keeps scheduling the timer thread.
HeartbeatStep ==
    (WaitTimesOut \/ WaitSeesStop \/ PrintBeat)
        /\ UNCHANGED <<hvars, rvars, svars, cvars, pvars, mvars, tvars, xvars, yvars, kvars, nvars>>
SpecHeartbeatFair == SpecHeartbeat /\ WF_vars(HeartbeatStep)

(***************************************************************************)
(* Properties of the lifecycle manager.                                    *)
(***************************************************************************)
AfterLifecycleCall ==
    last \in {"reset_ok", "reset_raised", "restore_ok", "restore_raised"}
RestoreRepoRan == last \in {"restore_ok", "restore_raised"}
SameRef == git.head = start.git.head
              /\ HeadCommit(git) = HeadCommit(start.git)

\* C2: after a sanitized run, whatever the branch switch and the agent's
\* actions, once restore_repo has run HEAD is the commit, the branch and the
\* detached state it was before the run.
C2_HeadRestoredAfterSanitizedRun ==
    (RestoreRepoRan /\ ret.original_ref.sanitized) => SameRef

\* The repository is as it was before the run: working tree, ignored files,
\* .git files, index, refs and current ref.
IdenticalToStart ==
    /\ fs = start.fs
    /\ git.index = start.git.index
    /\ git.refs = start.git.refs
    /\ git.head = start.git.head
SetupThenRestore == phase = "restored" /\ agent_steps = 0 /\ resets = 0
StartedClean ==
    /\ ~git_status_dirty(start)
    /\ start.git.index = TreeOf(start.git, HeadCommit(start.git))
TargetBranchLocal ==
    args.branch = "" \/ start.git.refs[args.branch] # NoCommit

PlainRestored == phase = "restored" /\ ~ret.original_ref.sanitized
SetupMadeBaseline == ret.baseline = "bl"
StartBranches == {b \in Branches : start.git.refs[b] # NoCommit}

\* C35: in the non-sanitized restore path the branch is moved back by one
\* commit if and only if setup created a baseline commit in this run; a
\* commit that existed before setup is never removed, and after restore HEAD
\* equals the pre-setup HEAD of that branch.
C35_OnlyOwnBaselineRemoved ==
    PlainRestored =>
        /\ \A b \in StartBranches : git.refs[b] = start.git.refs[b]
        /\ HeadCommit(git) = HeadCommit(start.git)

\* The same when the commit setup returned as the baseline carries the
\* baseline message only if setup made it.
OwnBaselineRemovedUnlessMessageTaken ==
    (PlainRestored
     /\ (IsBaselineCommit(start.git, ret.baseline) => SetupMadeBaseline))
        => /\ \A b \in StartBranches : git.refs[b] = start.git.refs[b]
           /\ HeadCommit(git) = HeadCommit(start.git)

\* C4: every ignored file that existed at setup exists at its path with its
\* content of that time after reset_to_baseline and after restore_repo have
\* returned.
C4_IgnoredFilesComeBack ==
    last \in {"reset_ok", "restore_ok"} =>
        \A r \in IgnoredAtStart :
            fs[join(Root, r)] = start.fs[join(Root, r)]

\* C5: reset_to_baseline and restore_repo leave everything outside the
\* working tree as it was.
OutsideOf(f) == [r \in Rests |-> f[Ext \o r]]
C5_NothingOutsideTouched ==
    AfterLifecycleCall => OutsideOf(fs) = OutsideOf(start.fs)

\* C6: after reset_to_baseline and restore_repo the files under .git are
\* those git put there, the restore of ignored files has written none.
C6_DotGitUntouched ==
    AfterLifecycleCall => GitFilesOf(fs) = FreshGitFiles

\* C7: after reset_to_baseline and restore_repo the tracked file has the
\* content of the commit that git reset it to.
C7_TrackedNotOverwritten ==
    AfterLifecycleCall =>
        fs[SrcPath] = File(TreeOf(git, HeadCommit(git)))

\* The entries of the working tree (everything in the repository directory
\* but .git and the tracked file).
WorkPaths == {n \in Nodes : IsPrefix(Root, n) /\ ~IsPrefix(Git, n)
                               /\ n # Git /\ n # SrcPath}
AtBaseline ==
    /\ HeadCommit(git) = ret.baseline
    /\ git.index = TreeOf(git, ret.baseline)
    /\ fs[SrcPath] = File(TreeOf(git, ret.baseline))
NothingLeftBehind == \A n \in WorkPaths : fs[n] = start.fs[n]

\* setup_starting_point on a clean repository leaves the untracked and the
\* ignored entries as they were, so the first attempt starts from them.
FirstAttemptStartsFromStart ==
    last = "setup_ok" => (AtBaseline /\ NothingLeftBehind)

\* C13: after reset_to_baseline returns, HEAD is the baseline commit, the
\* index and the tracked file equal the baseline, and no untracked or ignored
\* path created since setup remains, whatever the agent did: the next attempt
\* starts from the working tree the first attempt started from.
C13_ResetGivesFirstAttemptState ==
    last = "reset_ok" => (AtBaseline /\ NothingLeftBehind)

\* After reset_to_baseline returns, HEAD, index and tracked file are the
\* baseline and no untracked or ignored file remains; an emptied directory
\* may.
ResetGivesBaselineFiles ==
    last = "reset_ok" =>
        /\ AtBaseline
        /\ \A n \in WorkPaths :
             fs[n] # start.fs[n] => (fs[n] = Dir /\ start.fs[n] = NoEnt)

\* C14: in every state the agent can leave the repository in (edits, new
\* files, staged changes, its own commits), the patch obtained for the
\* attempt is the diff between the baseline commit and the working tree; it
\* is empty only when the working tree equals the baseline.
C14_PatchIsDiffFromBaseline ==
    last = "patch" => obtained = Diff(TreeOf(git, ret.baseline), fs)

\* The backup directory the handler decoded from original_ref.
TrustedBackupDir == decode_backup_dir(ret.original_ref)
Parses(sc) == sc.present

\* C18: _read_sidecar returns the data of <backup_dir>/sidecar.json
\* whenever a backup_dir is passed and that file parses, whatever the hint and
\* the in-repo sidecar contain; failing that the file the hint names when
\* that parses; the in-repo sidecar only when neither yields data.
C18_SidecarLookupOrder ==
    \A bd \in {"", "bak"} :
        /\ Parses(DurableSidecar(W, bd)) =>
              ReadSidecar(W, bd) = DurableSidecar(W, bd)
        /\ (~Parses(DurableSidecar(W, bd)) /\ Parses(HintedSidecar(W))) =>
              ReadSidecar(W, bd) = HintedSidecar(W)
        /\ (~Parses(DurableSidecar(W, bd)) /\ ~Parses(HintedSidecar(W))) =>
              ReadSidecar(W, bd) = sidecar
C18_Witness ==
    /\ phase = "agent"
    /\ Parses(DurableSidecar(W, TrustedBackupDir))
    /\ HintedSidecar(W) = ForgedSidecar
    /\ sidecar = SidecarData("bak", {})
    /\ ReadSidecar(W, TrustedBackupDir).pre_agent_ignored = IgnoredAtStart
    /\ ReadSidecar(W, "") = ForgedSidecar

\* C19: when reset_to_baseline is called with the trusted backup_dir, the
\* sidecar data it acts on is never taken from the hint or from the in-repo
\* sidecar, in any state of the backup directory and for any content of
\* those two files.
C19_ResetReadsDurableSidecarOnly ==
    [][(resets' = resets + 1 /\ TrustedBackupDir # "")
        => ResetSidecarSource(W, ret.baseline, TrustedBackupDir)
              \in {"durable", "none"}]_vars

\* Lines 660-669: the directory reset_to_baseline hands to
\* _restore_ignored_files, "" when it restores no ignored files.
ResetCopySource(w, baseline, backup_dir) ==
    LET sc == ReadSidecar(git_clean(git_reset_hard(w, baseline).w), backup_dir)
    IN  IF sc.present /\ sc.backup_dir # "" THEN sc.backup_dir ELSE ""

\* C33: when reset_to_baseline is called with the trusted backup_dir,
\* ignored-file contents are copied only from <trusted backup_dir>/ignored/,
\* never from a directory named by the backup_dir field inside a sidecar.
C33_ResetCopiesFromTrustedDirOnly ==
    [][(resets' = resets + 1 /\ TrustedBackupDir # "")
        => ResetCopySource(W, ret.baseline, TrustedBackupDir)
              \in {"", TrustedBackupDir}]_vars

\* While the durable sidecar is as the sanitizer wrote it, the reset copies
\* from the trusted directory.
ResetCopiesFromTrustedDirWhileDurableIntact ==
    [][(resets' = resets + 1 /\ TrustedBackupDir # ""
          /\ DurableSidecar(W, TrustedBackupDir).present
          /\ DurableSidecar(W, TrustedBackupDir).backup_dir = TrustedBackupDir)
        => ResetCopySource(W, ret.baseline, TrustedBackupDir)
              = TrustedBackupDir]_vars

\* reset_to_baseline or restore_repo is called (its git commands leave the
\* ignored entries alone, so what it removes the ignored-file restore removes).
RestoreOfIgnoredRuns ==
    /\ phase = "agent"
    /\ last' \in {"reset_ok", "reset_raised", "restore_ok", "restore_raised"}
HasBackupFile(r) == ~isabs(r) /\ BackupFile(W, "bak", r) # ""

\* C20: a path that has a file under <backup>/ignored/ is never deleted as
\* agent-created by the ignored-file restore, even when pre_agent_ignored of
\* the sidecar has been changed to empty.
C20_BackedUpPathNeverDeleted ==
    [][RestoreOfIgnoredRuns =>
         \A r \in RelPaths :
            (HasBackupFile(r) /\ lexists(fs, join(Root, r)))
                => lexists(fs', join(Root, r))]_vars

\* The same while no ignored directory has been made a repository of its own
\* and the durable sidecar is there to be read, whatever its list holds.
BackedUpPathKeptWithoutNestedRepo ==
    [][(RestoreOfIgnoredRuns /\ fs[Cache] # NestedRepo
          /\ SidecarSource(W, "bak") = "durable") =>
         \A r \in RelPaths :
            (HasBackupFile(r) /\ lexists(fs, join(Root, r)))
                => lexists(fs', join(Root, r))]_vars

\* C21: when git init, config, add or commit failed during sanitization and
\* the error is re-raised, the original .git is back in the repository; and
\* at every point of sanitization and of restore_repo a complete copy of the
\* original .git is in the repository or in the backup directory.
C21_OriginalGitNeverLost ==
    /\ spc = "reraised" => git_entry = "original"
    /\ git_entry = "original" \/ backup_entry = "original"
C21_Witness ==
    /\ spc = "reraised"
    /\ git_entry = "original"
    /\ backup_entry = "none"

\* restore_repo has begun; the backup directory is no longer whole.
RestoreBegun == restore_done # {}
BackupTouched == backup_entry # "original"

\* The statements that come before the deletion of the backup directory:
\* the copy of .git, the reset of the branch and, when a sidecar was read,
\* the restore of the ignored files.
BeforeBackupDrop ==
    /\ {"restore_read", "restore_copy", "restore_reset"} \subseteq restore_done
    /\ git_entry = "original"
    /\ sidecar_data = "found" => "restore_ignored" \in restore_done

\* C34: in the sanitized restore_repo the sidecar is read before .git is
\* replaced, and the backup directory is deleted only after the original
\* .git has been copied back, the branch reset and the ignored files
\* restored; if an earlier step raises the backup directory still exists,
\* and after restore_repo returns normally it no longer exists.
C34_BackupDroppedLast ==
    /\ [][(RestoreBegun' /\ git_entry' # git_entry)
            => "restore_read" \in restore_done]_vars
    /\ []((RestoreBegun /\ BackupTouched) => BeforeBackupDrop)
    /\ []((spc = "raised" /\ RestoreBegun /\ ~BeforeBackupDrop)
            => backup_entry = "original")
    /\ [](spc = "restored" => backup_entry = "none")

\* C34 witness: restore_repo returned after it read a sidecar and restored
\* the ignored files; the backup directory is gone.
C34_Witness ==
    /\ spc = "restored"
    /\ sidecar_data = "found"
    /\ "restore_ignored" \in restore_done
    /\ git_entry = "original"
    /\ backup_entry = "none"

\* restore_repo raised while it restored the ignored files: the backup
\* directory is still whole.
RaisedBeforeBackupDrop ==
    /\ spc = "raised"
    /\ restore_done = {"restore_read", "restore_find", "restore_remove",
                       "restore_copy", "restore_reset"}
    /\ backup_entry = "original"

\* setup_starting_point raised and never called _mark_mutated.
RaisedUnmutated == last = "setup_raised" /\ ~ret.mutated

\* C22: whenever setup_starting_point raises while mutated_flag is still
\* empty, nothing in the repository has changed: HEAD, the branches and
\* other refs, the index and the working-tree files are as before the call.
C22_UnmutatedFailureChangesNothing == RaisedUnmutated => IdenticalToStart

\* The raise with an empty flag that does leave the repository as it was:
\* the ground-truth patch is missing or the branch is nowhere to be found.
UnmutatedFailureWithoutFetch ==
    (RaisedUnmutated /\ (args.gt_patch = "missing" \/ args.remote \in {"none", "neither"}))
        => IdenticalToStart

\* The cleanup has passed the reading of the sidecar.
CleanupPastRecover == cpc \notin {"idle", "recover"}

\* C23: in the partial-setup cleanup nothing from a backup directory named
\* by a sidecar is copied into the repository (the repository keeps the git
\* database and the .git files it had), and that directory is neither
\* modified nor deleted; only its path is printed.
C23_NamedBackupOnlyPrinted ==
    CleanupPastRecover =>
        /\ bak = cleanup_from.w.bak
        /\ forged_dir = cleanup_from.forged
        /\ GitFilesOf(fs) = GitFilesOf(cleanup_from.w.fs)
        /\ git.sanitized = cleanup_from.w.git.sanitized
        /\ git.objs = cleanup_from.w.git.objs
        /\ printed_dir = recover_sanitize_backup(cleanup_from.w,
                                                 cleanup_from.forged)

\* C23 witness: the cleanup ended after a sidecar named the sanitizer's
\* backup, which is still there, and the repository has the re-init database.
C23_Witness ==
    /\ cpc \in {"done", "failed"}
    /\ printed_dir = "bak"
    /\ bak.exists
    /\ git.sanitized

\* The cleanup also met a planted sidecar that names a plausible directory.
ForgedDirNamed == cpc \in {"done", "failed"} /\ printed_dir = "forged"

\* get_patch has ended, by a return or by an exception.
GetPatchEnded == gpc = "exit"

\* C24: on every exit path of get_patch after staging was started (normal
\* return, git add failure, git diff failure, timeout, any other exception)
\* 'git reset HEAD' has been run and nothing is left staged.
C24_UnstagedOnEveryExit == GetPatchEnded => (reset_ran /\ staged = {})

\* On the exits that the code handles (return and RuntimeError), 'git reset
\* HEAD' has been run.
ResetRunOnHandledExits ==
    (GetPatchEnded /\ gp_result.kind \in {"returned", "RuntimeError"})
        => reset_ran

\* get_patch returned a text.
GetPatchReturned == gpc = "exit" /\ gp_result.kind = "returned"
\* The change is one of the sidecar file: its old or its new path is the
\* sidecar filename.
OfSidecar(c) == c.a = SidecarPath \/ c.b = SidecarPath
InText(l, text) == \E i \in 1..Len(text) : text[i] = l

\* C25: no diff block whose file path is the sidecar filename appears in a
\* patch returned by get_patch, whatever the agent did to the sidecar file
\* or to .git/info/exclude.
C25_NoSidecarBlockInPatch ==
    GetPatchReturned =>
        \A i \in 1..Len(tree) :
            OfSidecar(tree[i]) => ~InText(Header(tree[i]), gp_result.text)

\* The blocks of the sidecar are removed whenever git prints both paths of
\* the header unquoted, and the blocks of other files are kept.
UnquotedSidecarBlocksRemoved ==
    GetPatchReturned =>
        \A i \in 1..Len(tree) :
            InText(Header(tree[i]), gp_result.text)
                <=> ~(OfSidecar(tree[i]) /\ ~tree[i].quoted)

\* C26: for every working tree that differs from HEAD by at least one
\* change (a modified file, a new file including an empty one, a deleted
\* file, a rename, a mode change or a binary change), validate_patch applied
\* to the output of get_patch returns valid.
HasOrdinaryChange == \E i \in 1..Len(tree) : ~OfSidecar(tree[i])
C26_PatchOfChangedTreeIsValid ==
    (GetPatchReturned /\ HasOrdinaryChange)
        => validate_patch_text(gp_result.text).ok

\* The patch is valid when no changed file is empty and no changed line
\* begins with "-- " or "++ ".
PlainChange(c) ==
    /\ c.kind \notin {"add_empty", "delete_empty"}
    /\ c.old # "-- only"
    /\ c.new # "++ x"
PatchOfPlainChangesIsValid ==
    (GetPatchReturned /\ HasOrdinaryChange
     /\ \A i \in 1..Len(tree) : PlainChange(tree[i]))
        => validate_patch_text(gp_result.text).ok

\* reset_to_baseline or restore_repo has restored the ignored file.
ModeRestored == mpc \in {"restore", "restored"}

\* C27: for every ignored file that existed when setup ran and every
\* permission mode it had, its mode after reset_to_baseline and after
\* restore_repo equals its mode at setup.
C27_IgnoredFileModeKept == ModeRestored => file_mode = setup_mode

\* The mode is kept when it had user-write and none of setuid, setgid and
\* sticky; otherwise user-write is added and those three bits are dropped.
ModeKeptUpToSafeBits ==
    ModeRestored => file_mode = WithBit(Low9(setup_mode), S_IWUSR)

\* send_task has returned or raised.
SendTaskEnded == tpc = "done"

\* C28: for every shape of the POST response, send_task either returns a
\* message whose role is assistant or raises AgentDidNotRunError; it never
\* returns a non-assistant message.
C28_ReturnsAssistantOrRaises ==
    SendTaskEnded =>
        \/ sent.kind = "AgentDidNotRunError"
        \/ sent.kind = "returned" /\ is_assistant_message(sent.msg)

\* What send_task returns is the normalisation of a message that
\* is_assistant_message accepts, and it raises only after polling; the
\* returned message has the role when the accepted one had "info" and
\* "parts" or the role "assistant" at its top.
ReturnsNormalizedAssistant ==
    SendTaskEnded =>
        \/ sent.kind = "AgentDidNotRunError" /\ AnsweredBy(response) = NotDict
        \/ /\ sent.kind = "returned"
           /\ is_assistant_message(sent.from)
           /\ (sent.from.role = "assistant"
               \/ (sent.from.info # "absent" /\ sent.from.parts # "absent"))
                  => is_assistant_message(sent.msg)

\* sanitize_prompt has been applied to the prompt and to its own result.
SanitizedTwice == xpc = 2

\* handler() has returned, exited or let an exception out.
RunEnded == kpc = "ended"

\* C38: when the run has ended, with or without a patch and after any
\* failure, no temporary file made for the ground-truth patch is left:
\* neither the downloaded copy nor the safety copy.
C38_NoGtTempFileLeft == RunEnded => temp_dir = {}

\* The downloaded copy is left only when writing it raised, before it was
\* recorded; the safety copy only when the copy, the reset or the clean
\* raised, before the try/finally that removes it was entered.
GtTempFileLeftOnlyByEarlyFailure ==
    RunEnded =>
        /\ Downloaded \in temp_dir <=> run.raised_at = "write"
        /\ SafetyCopy \in temp_dir <=>
              gt_arg = "inside" /\ run.raised_at \in {"safety_copy", "reset"}

\* The configured model cannot be used: the catalog could not be fetched or
\* does not hold it.
ConfiguredUnavailable ==
    /\ resolved.model # NoModel
    /\ \/ ~catalog.fetched
       \/ resolve_in_catalog(catalog, resolved.model, resolved.name) = NoModel

\* C39: model resolution never raises, and when the configured model is not
\* in the catalog of the server or the catalog cannot be fetched, no
\* explicit model is selected.
C39_ResolutionFallsBackToDefault ==
    /\ npc # "raised"
    /\ npc = "done" /\ ConfiguredUnavailable => resolved.selected = NoModel

\* resolve_model raises only on a configuration file that is not UTF-8 or
\* whose JSON is not shaped as objects; choose_server_model never raises,
\* selects no model and warns when the fetched catalog lacks the configured
\* one, and keeps the configured model when the catalog cannot be fetched.
ResolutionFallsBackWhenCatalogFetched ==
    /\ npc = "raised" =>
          /\ model_env.kind # "model"
          /\ config_file.kind \in {"not_utf8", "not_object",
                                   "agent_not_object"}
    /\ npc = "done" /\ ConfiguredUnavailable /\ catalog.fetched =>
          resolved.selected = NoModel /\ resolved.warning
    /\ npc = "done" /\ ~catalog.fetched =>
          resolved.selected = resolved.model /\ ~resolved.warning

\* send_task has returned or raised.
SendTaskExited == send_pc = "exited"

\* C40: the heartbeat thread is started by send_task only, its stop signal
\* is set before send_task returns or raises, once the signal is set it
\* prints nothing more and ends, and its steps change nothing of
\* send_task.
C40_HeartbeatOnlyDuringSendTask ==
    /\ [](SendTaskExited /\ thread # "unstarted" => stop_set)
    /\ [][stop_set => beats' = beats]_vars
    /\ (stop_set ~> thread = "ended")
    /\ [][HeartbeatStep => UNCHANGED <<send_pc, exit_by, stop_set>>]_vars

\* The thread runs only after send_task started it, its stop signal is set
\* on every exit of the with block, by return or by exception; after the
\* signal is set it prints at most one more line, the one whose interval
\* had run out before, and ends; its steps change nothing of send_task.
C40_HeartbeatStopsAfterAtMostOneLine ==
    /\ [](thread # "unstarted" => send_pc # "call")
    /\ [](SendTaskExited /\ thread # "unstarted" => stop_set)
    /\ [](SendTaskExited /\ thread = "unstarted" => exit_by = "exception")
    /\ [](late_beats <= 1)
    /\ [][stop_set /\ beats' # beats => thread = "printing" /\ late_beats = 0]_vars
    /\ (stop_set ~> thread = "ended")
    /\ [][thread = "ended" => thread' = "ended" /\ beats' = beats]_vars
    /\ [][HeartbeatStep => UNCHANGED <<send_pc, exit_by, stop_set>>]_vars

\* send_task left by an exception, the thread printed one line after the
\* signal was set and has ended.
C40_Witness ==
    /\ SendTaskExited
    /\ exit_by = "AgentDidNotRunError"
    /\ stop_set
    /\ late_beats = 1
    /\ thread = "ended"

\* The late line can also come after send_task has returned, when join
\* gave up after its two seconds.
NoBeatAfterExit == ~beat_after_exit

\* wait_for_assistant_message was called and has returned or raised.
WaitEnded == waited # "none"

\* C37: wait_for_assistant_message ends, for every sequence of answers to
\* its GET requests, by returning a message when and only when one of the
\* lists it fetched contained an assistant message, and by raising
\* TimeoutError otherwise.
C37_ReturnsIffFetchedAssistant ==
    WaitEnded =>
        /\ waited \in {"returned", "TimeoutError"}
        /\ waited = "returned" <=> fetched # "none"

\* It returns when and only when a list fetched before the deadline held an
\* assistant message; the list fetched after the deadline is only reported.
ReturnsIffPolledAssistant ==
    WaitEnded =>
        /\ waited \in {"returned", "TimeoutError"}
        /\ waited = "returned" <=> fetched = "poll"
        /\ waited = "returned" =>
              sent.kind = "returned" /\ is_assistant_message(sent.from)

\* C29: for every prompt text t, sanitize_prompt(sanitize_prompt(t)) equals
\* sanitize_prompt(t).
C29_SanitizeIdempotent == SanitizedTwice => sanitized[2] = sanitized[1]

\* The second application changes nothing when the first result holds no
\* label **Repo Link:**.
IdempotentWithoutLabelLeft ==
    (SanitizedTwice
     /\ \A i \in 1..Len(sanitized[1]) : ~IsLabel(sanitized[1], i))
        => sanitized[2] = sanitized[1]

\* Score validation has run on a payload whose three criteria are finite
\* numbers and whose overall_score is numeric.
ValidatedNumeric ==
    /\ ypc = "validated"
    /\ \A i \in 1..3 : FiniteNumber(scores[i])
    /\ FiniteNumber(stored_overall)

\* C30: when the three criterion scores A, B, C are present, finite numbers
\* and not booleans, and overall_score is numeric, score validation leaves
\* overall_score equal to round(9a + 7b + 4c) clamped to [0, 100], where a,
\* b, c are A, B, C clamped to [0, 5]; A = 10, B = -1, C = 3 gives 57.
C30_OverallScoreIsWeightedSum ==
    ValidatedNumeric =>
        /\ overall_score = Num(2 * Computed(scores))
        /\ scores = <<Num(20), Num(-2), Num(6)>> => overall_score = Num(114)

\* A = 10, B = -1, C = 3 with a stored overall_score of 50 has been
\* validated, and overall_score is 57.
C30_Witness ==
    /\ ValidatedNumeric
    /\ scores = <<Num(20), Num(-2), Num(6)>>
    /\ stored_overall = Num(100)
    /\ overall_score = Num(114)

\* The partial-setup cleanup has ended (normally or by an exception) after a
\* setup that was left once the sanitizer had put the single-commit
\* repository in place.
CleanupEndedAfterLateFailure ==
    /\ cpc \in {"done", "failed"}
    /\ cleanup_from.w.git.sanitized

Happened(e) == \E i \in DOMAIN trace : trace[i].e = e
Calls(es) == {i \in DOMAIN trace : trace[i].e \in es}

RestoreRepoCalls == Calls({"restore_repo", "restore_repo_raised"})

\* Calls that belong to an attempt of the retry loop.
AttemptCalls ==
    {"attempt_begin", "reset_returned", "reset_raised", "create_session",
     "create_session_raised", "send_task", "AgentDidNotRunError",
     "Exception", "interrupt", "get_patch", "get_patch_raised", "validate",
     "collect_trajectory", "collect_trajectory_raised", "cleanup_session",
     "cleanup_session_raised"}

\* C1: when setup_starting_point returned, restore_repo is called exactly
\* once before the process exits, whatever ended the retry loop, and no step
\* of an attempt follows the call.
C1_RestoreExactlyOnceAfterLastAttempt ==
    /\ Cardinality(RestoreRepoCalls) <= 1
    /\ (pc = "exited" /\ Happened("setup_returned"))
          => Cardinality(RestoreRepoCalls) = 1
    /\ \A i \in RestoreRepoCalls :
          \A j \in DOMAIN trace : j > i => trace[j].e \notin AttemptCalls

\* C1 witness: a run whose trajectory write raised after a valid patch was
\* written has exited with restore_repo called.
C1_Witness ==
    /\ pc = "exited"
    /\ Happened("setup_returned")
    /\ Happened("write_patch")
    /\ Happened("save_trajectory_raised")
    /\ RestoreRepoCalls # {}

\* C1 witness of the other endings: the loop ended by AgentDidNotRunError,
\* by an interrupt, or by three failed attempts.
C1_WitnessExhausted ==
    /\ pc = "exited"
    /\ Len(attempts) = MAX_RETRIES
    /\ final_patch = ""
    /\ RestoreRepoCalls # {}

RestoreStepFailed ==
    Happened("restore_repo_raised") \/ Happened("basic_cleanup_raised")

\* C8: the handler exits with 2 whenever the restore step failed, also when
\* setup or the retry loop raised; otherwise with 1 without a final patch and
\* with 0 with one.
C8_ExitCode ==
    pc = "exited" =>
        exit_code = IF RestoreStepFailed THEN 2
                    ELSE IF final_patch = "" THEN 1
                    ELSE 0

FinallyCalls ==
    Calls({"restore_repo", "restore_repo_raised", "no_cleanup",
           "basic_cleanup", "basic_cleanup_raised"})

\* C9: the finally block takes exactly one of three actions: restore_repo
\* iff setup returned; nothing iff setup did not return and mutated_flag is
\* empty; the best-effort cleanup iff setup did not return and mutated_flag
\* is not empty.
C9_FinallyTakesOneBranch ==
    /\ Cardinality(FinallyCalls) <= 1
    /\ pc \in {"final_cleanup", "exit"} => Cardinality(FinallyCalls) = 1
    /\ FinallyCalls # {} =>
         /\ RestoreRepoCalls # {} <=> Happened("setup_returned")
         /\ Happened("no_cleanup")
              <=> (~Happened("setup_returned") /\ mutated_flag = <<>>)
         /\ (Happened("basic_cleanup") \/ Happened("basic_cleanup_raised"))
              <=> (~Happened("setup_returned") /\ mutated_flag # <<>>)

\* C9 witness: the finally block ran the best-effort cleanup after a setup
\* that raised with the flag set.
C9_Witness ==
    /\ pc = "final_cleanup"
    /\ Happened("setup_raised")
    /\ mutated_flag # <<>>
    /\ Happened("basic_cleanup")

\* Steps that start or continue an attempt.
NewAttemptCalls ==
    {"attempt_begin", "reset_returned", "reset_raised", "create_session",
     "create_session_raised", "send_task", "Exception", "interrupt",
     "AgentDidNotRunError"}

\* C10: after an attempt whose send_task raised AgentDidNotRunError no reset,
\* session creation or task POST follows, and the attempts list ends with
\* that attempt, recorded as invalid.
C10_AgentDidNotRunEndsRetries ==
    \A i \in Calls({"AgentDidNotRunError"}) :
        /\ \A j \in DOMAIN trace :
              j > i => trace[j].e \notin NewAttemptCalls
        /\ pc # "validate" =>
              /\ Len(attempts) = trace[i].a
              /\ attempts[Len(attempts)].attempt = trace[i].a
              /\ ~attempts[Len(attempts)].patch_valid
              /\ attempts[Len(attempts)].patch_validation_reason
                    = "agent did not run"

\* C10 witness: the second attempt raised AgentDidNotRunError and the
\* handler has exited with two attempts recorded.
C10_Witness ==
    /\ pc = "exited"
    /\ \E i \in Calls({"AgentDidNotRunError"}) : trace[i].a = 2
    /\ Len(attempts) = 2

AfterLoop ==
    pc \in {"write_patch", "save_trajectory", "finally", "final_cleanup",
            "exit", "exited"}
LastAttempt == attempts[Len(attempts)]

\* C11: the retry loop starts at most 3 attempts and stops at the first one
\* whose patch passes validate_patch: every recorded attempt but the last is
\* invalid, an attempt is valid exactly when validate_patch accepts its
\* patch, and once the loop is over the final patch is non-empty exactly when
\* the last recorded attempt is valid, and is then that attempt's patch.
C11_StopsAtFirstValidPatch ==
    /\ Cardinality(Calls({"attempt_begin"})) <= MAX_RETRIES
    /\ Len(attempts) <= MAX_RETRIES
    /\ \A i \in DOMAIN attempts :
         /\ attempts[i].patch_valid = validate_patch(attempts[i].patch).ok
         /\ i < Len(attempts) => ~attempts[i].patch_valid
    /\ AfterLoop =>
         /\ final_patch # "" <=> (attempts # <<>> /\ LastAttempt.patch_valid)
         /\ final_patch # "" => final_patch = LastAttempt.patch

\* C11 witness: two invalid attempts (one malformed patch), then a valid
\* third one whose patch became the final patch.
C11_Witness ==
    /\ pc = "exited"
    /\ Len(attempts) = MAX_RETRIES
    /\ attempts[1].patch = "malformed"
    /\ LastAttempt.patch_valid
    /\ final_patch = LastAttempt.patch

EventsOf(i, es) == {j \in DOMAIN trace : trace[j].a = i /\ trace[j].e \in es}
SessionCalls == {"create_session", "create_session_raised"}
TaskCalls == {"send_task", "AgentDidNotRunError", "Exception", "interrupt"}

\* C12: in every attempt from the second on reset_to_baseline has returned
\* before the attempt's session is created; an attempt whose reset raised
\* creates no session and sends no task; the first attempt does not reset.
C12_ResetPrecedesSession ==
    /\ \A j \in DOMAIN trace :
         (trace[j].e \in SessionCalls /\ trace[j].a >= 2) =>
            \E k \in EventsOf(trace[j].a, {"reset_returned"}) : k < j
    /\ \A k \in DOMAIN trace :
         trace[k].e = "reset_raised" =>
            EventsOf(trace[k].a, SessionCalls \cup TaskCalls) = {}
    /\ EventsOf(1, {"reset_returned", "reset_raised"}) = {}

\* C12 witness: the reset of the second attempt raised, the third attempt
\* reset the repository and then created its session.
C12_Witness ==
    /\ EventsOf(2, {"reset_raised"}) # {}
    /\ EventsOf(3, {"reset_returned"}) # {}
    /\ EventsOf(3, {"create_session"}) # {}
    /\ EventsOf(1, {"create_session"}) # {}

TrajectoryBuilt == final_trajectory.conversation_of # -1

C36_SessionOfDecidingAttempt ==
    (TrajectoryBuilt /\ attempts # <<>>)
        => final_trajectory.session_id = LastAttempt.session_id

\* The same when the deciding attempt created a session.
SessionOfDecidingAttemptWhenCreated ==
    (TrajectoryBuilt /\ attempts # <<>>
     /\ LastAttempt.session_id # NoSession)
        => final_trajectory.session_id = LastAttempt.session_id

\* Delete requests for the session of attempt i (the session id of attempt i
\* is i).
DeleteCalls == {"cleanup_session", "cleanup_session_raised",
                "cleanup_final_session", "cleanup_final_session_raised"}
DeleteRequests(i) == EventsOf(i, DeleteCalls)
SessionCreated(i) == EventsOf(i, {"create_session"}) # {}

\* C16: every session created during the run has got exactly one delete
\* request when the handler exits: after its attempt was judged invalid, or
\* in the final cleanup for the attempt that produced the final patch.
C16_EverySessionDeletedOnce ==
    pc = "exited" =>
        \A i \in 1..MAX_RETRIES :
            SessionCreated(i) => Cardinality(DeleteRequests(i)) = 1

\* The same for runs in which no step was interrupted.
SessionsDeletedUnlessInterrupted ==
    (pc = "exited" /\ ~Happened("interrupt")) =>
        \A i \in 1..MAX_RETRIES :
            SessionCreated(i) => Cardinality(DeleteRequests(i)) = 1

\* No session gets more than one delete request, and none before it exists.
NoSessionDeletedTwice ==
    \A i \in 1..MAX_RETRIES :
        /\ Cardinality(DeleteRequests(i)) <= 1
        /\ DeleteRequests(i) # {} => SessionCreated(i)

\* Calls with which the finally block restores the repository.
RestorationCalls ==
    {"restore_repo", "restore_repo_raised", "basic_cleanup",
     "basic_cleanup_raised"}

\* C32: restoration of the repository (restore_repo or the partial cleanup)
\* starts only after every agent session created in the run has been sent
\* its delete request.
C32_SessionsDeletedBeforeRestore ==
    \A j \in Calls(RestorationCalls) :
        \A i \in 1..MAX_RETRIES :
            (\E c \in EventsOf(i, {"create_session"}) : c < j)
                => \E k \in DeleteRequests(i) : k < j

\* The sessions of the attempts before the last one have been sent their
\* delete request when restoration starts.
EarlierSessionsDeletedBeforeRestore ==
    \A j \in Calls(RestorationCalls) :
        \A i \in 1..MAX_RETRIES :
            (i < Len(attempts) /\ SessionCreated(i))
                => \E k \in DeleteRequests(i) : k < j

\* The place of a call in the order of an attempt's steps (0: not a step).
StepRank(e) ==
    CASE e \in SessionCalls -> 1
      [] e \in TaskCalls -> 2
      [] e \in {"get_patch", "get_patch_raised"} -> 3
      [] e = "validate" -> 4
      [] e \in {"collect_trajectory", "collect_trajectory_raised"} -> 5
      [] e \in DeleteCalls -> 6
      [] OTHER -> 0
Steps == {j \in DOMAIN trace : trace[j].a >= 1 /\ StepRank(trace[j].e) > 0}

\* C17: within every attempt session creation, task POST, patch
\* extraction, validation and trajectory collection happen in this order, each
\* at most once and the steps on a session only after its creation, and the
\* trajectory of an attempt is collected before the delete request for that
\* attempt's session.
C17_StepsInOrder ==
    /\ \A j, k \in Steps :
         (j < k /\ trace[j].a = trace[k].a)
             => StepRank(trace[j].e) < StepRank(trace[k].e)
    /\ \A k \in Steps :
         StepRank(trace[k].e) = 6 =>
             \E j \in Steps : /\ j < k
                               /\ trace[j].a = trace[k].a
                               /\ StepRank(trace[j].e) = 5
    /\ \A k \in Steps :
         StepRank(trace[k].e) \in {2, 3, 5} =>
             \E j \in Steps : /\ j < k
                               /\ trace[j].a = trace[k].a
                               /\ trace[j].e = "create_session"
C17_Witness ==
    /\ \A r \in 1..6 : \E j \in Steps : trace[j].a = 1
                                           /\ StepRank(trace[j].e) = r
    /\ \E j \in Steps : trace[j].a = 2 /\ trace[j].e = "cleanup_final_session"
    /\ \E j \in Steps : trace[j].a = 2 /\ trace[j].e = "collect_trajectory"
====
